---- MODULE Spec2Model ----
(***************************************************************************)
(* The sales-funnel dashboard (streamlit_app_simple.py): the Metrics table  *)
(* and calculate_metrics, the snapshot of stage counts and the functions   *)
(* main() applies to it - the conversion rates computed inline in main,    *)
(* calculate_bottleneck, calculate_projections and                         *)
(* calculate_lead_temperature - and the runs of main over the spreadsheet, *)
(* the Streamlit caches and the session state.                             *)
(*                                                                         *)
(* Numbers.  Python's "/" yields a float.  In the rates, the bottleneck    *)
(* list and the temperature breakdown a float quotient of two counts is    *)
(* modelled as the exact fraction in lowest terms, [n |-> , d |-> ], so    *)
(* that two quotients are equal, or ordered, exactly when the fractions    *)
(* are: for counts of the size used here distinct fractions differ by far  *)
(* more than one unit in the last place and correctly rounded division is  *)
(* monotone, so the floats compare as the fractions do.  A division by     *)
(* zero raises ZeroDivisionError in Python; it is modelled by the value    *)
(* ZeroDivisionError (denominator 0), which every arithmetic operator      *)
(* propagates and which makes the enclosing call raise.                    *)
(*                                                                         *)
(* calculate_projections truncates float results with int(), where one     *)
(* unit in the last place decides the integer.  There the floats are       *)
(* IEEE-754 doubles: a 53-bit significand with its exponent, every         *)
(* operation rounded to nearest, ties to even.                             *)
(*                                                                         *)
(* The stage labels of calculate_bottleneck are written with "->" in place *)
(* of the arrow character of the source.                                   *)
(***************************************************************************)
EXTENDS Integers, Sequences, FiniteSets, TLC

VARIABLES
  metrics,        \* main's snapshot: the dict returned by calculate_metrics
  called,         \* the functions applied in this refresh so far
  raised,         \* the ones whose call raised
  rates,          \* main's conversion rates
  bottlenecks,    \* the list returned by calculate_bottleneck
  projections,    \* the dict returned by calculate_projections
  temp_data,      \* the dict returned by calculate_lead_temperature
  again,          \* the derivations applied a second time
  df,             \* main's Metrics table
  last_update,    \* main's last_update: TRUE for a timestamp, FALSE for None
  credentials,    \* whether the service-account credentials are usable now
  source,         \* the spreadsheet now: reachable or not, and its Metrics sheet
  client_cache,   \* st.cache_resource entry of get_google_sheets_client
  load_cache,     \* st.cache_data entry of load_metrics_from_sheets
  session_state,  \* st.session_state: show_ai_insights, ai_insights_cache
  rendered,       \* what the last run of main put on the page
  progress,       \* the values main passed to st.progress
  env,            \* the module globals and the environment of the process
  daily_df,       \* main's Daily series: <<>> for None, <<table>> otherwise
  whatsapp_df,    \* main's WhatsApp series, likewise
  temp_trend_df,  \* what calculate_temperature_trend returned, likewise
  source_temp_df, \* what calculate_temperature_by_source returned, likewise
  leads,          \* the Lead Tracker table of streamlit_app and streamlit_app_v2
  stats,          \* the dict returned by streamlit_app.get_summary_stats
  stats_v2        \* the dict returned by streamlit_app_v2.get_summary_stats

\* the outputs of one refresh's derivations
derived == <<rates, bottlenecks, projections, temp_data>>

\* the data source, the caches, the session and the page
store == <<df, last_update, credentials, source, client_cache, load_cache,
           session_state, rendered>>

\* the optional series of the loader
series == <<daily_df, whatsapp_df>>

\* the temperature tables of the Lead Scoring section
trends == <<temp_trend_df, source_temp_df>>

\* the lead tracker of the two other dashboards
tracker == <<leads, stats, stats_v2>>

app == <<store, progress, env, series, trends, tracker>>

vars == <<metrics, called, raised, derived, again, app>>

----------------------------------------------------------------------------
(* Bounds and inputs *)

MaxCount == 2

Counts == 0..MaxCount

Stages ==
  <<"Total Leads", "Qualified Leads", "Viewings Scheduled", "Viewings Completed",
    "Offers Made", "Offers Accepted", "Closed Sales">>

StageSet == {Stages[i] : i \in 1..Len(Stages)}

\* The sample Metrics worksheet documented in main().
Fixture ==
  [s \in StageSet |->
     CASE s = "Total Leads" -> 150
       [] s = "Qualified Leads" -> 45
       [] s = "Viewings Scheduled" -> 30
       [] s = "Viewings Completed" -> 25
       [] s = "Offers Made" -> 15
       [] s = "Offers Accepted" -> 10
       [] s = "Closed Sales" -> 8]

\* Well-formed funnels on which a float quotient, product or division of
\* calculate_projections rounds below the exact value.
RoundingSamples ==
  {[s \in StageSet |->
      CASE s = "Total Leads" -> 50
        [] s = "Qualified Leads" -> 29
        [] s = "Viewings Scheduled" -> 20
        [] s = "Viewings Completed" -> 15
        [] s = "Offers Made" -> 10
        [] s = "Offers Accepted" -> 8
        [] s = "Closed Sales" -> 5],
   [s \in StageSet |->
      CASE s = "Total Leads" -> 11
        [] s = "Qualified Leads" -> 4
        [] s = "Viewings Scheduled" -> 4
        [] s = "Viewings Completed" -> 4
        [] s = "Offers Made" -> 3
        [] s = "Offers Accepted" -> 3
        [] s = "Closed Sales" -> 3],
   [s \in StageSet |->
      CASE s = "Total Leads" -> 11
        [] s = "Qualified Leads" -> 8
        [] s = "Viewings Scheduled" -> 8
        [] s = "Viewings Completed" -> 8
        [] s = "Offers Made" -> 5
        [] s = "Offers Accepted" -> 5
        [] s = "Closed Sales" -> 5]}

\* A snapshot is the dict built by calculate_metrics: one key per Stage row
\* of the worksheet, so a stage without a row has no key.  The snapshots
\* enumerated: every count of every stage, every set of missing stages, and
\* the samples.
Snapshots ==
  [StageSet -> Counts] \cup {[s \in S |-> 1] : S \in SUBSET StageSet}
    \cup {Fixture} \cup RoundingSamples

\* the snapshots on which a derivation is applied twice
RepeatSnapshots ==
  {[s \in S |-> 1] : S \in SUBSET StageSet} \cup {Fixture} \cup RoundingSamples

\* metrics.get(k, 0)
Get(m, k) == IF k \in DOMAIN m THEN m[k] ELSE 0

----------------------------------------------------------------------------
(* Arithmetic *)

Min(a, b) == IF a <= b THEN a ELSE b

Max(a, b) == IF a >= b THEN a ELSE b

RECURSIVE GCD(_, _)
GCD(a, b) == IF b = 0 THEN a ELSE GCD(b, a % b)

\* the fraction n/d (n >= 0, d > 0) in lowest terms
Rat(n, d) == LET g == GCD(n, d) IN [n |-> n \div g, d |-> d \div g]

Zero == Rat(0, 1)

ZeroDivisionError == [n |-> 0, d |-> 0]

IsError(r) == r.d = 0

\* a / b
TrueDiv(a, b) == IF b = 0 THEN ZeroDivisionError ELSE Rat(a, b)

\* r * k, k a non-negative integer
Times(r, k) == IF IsError(r) THEN r ELSE Rat(r.n * k, r.d)

\* r < s, r <= s, for fractions
RatLess(r, s) == r.n * s.d < s.n * r.d

RatLeq(r, s) == r.n * s.d <= s.n * r.d

\* some value of the dict d under the keys ks is a raised ZeroDivisionError
DictRaises(d, ks) == \E k \in ks \cap DOMAIN d : IsError(d[k])

\* the empty dict {}
EmptyDict == <<>>

----------------------------------------------------------------------------
(* main(): the conversion rates computed inline *)

\* the percentage without its "if a > 0" guard
UnguardedPct(b, a) == Times(TrueDiv(b, a), 100)

\* the guarded quotient without "* 100"
GuardedRatio(b, a) == IF a > 0 THEN TrueDiv(b, a) ELSE Zero

\* (b / a * 100) if a > 0 else 0
GuardedPct(b, a) == IF a > 0 THEN Times(TrueDiv(b, a), 100) ELSE Zero

RateKeys ==
  {"lead_to_qual_rate", "qual_to_sched_rate", "sched_to_comp_rate", "comp_to_offer_rate",
   "offer_to_accept_rate", "accept_to_close_rate", "overall_close_rate"}

\* the rates with qual_to_sched_rate inverted (source over target)
main_rates_inverted(m) ==
  LET total == Get(m, "Total Leads")
      qualified == Get(m, "Qualified Leads")
      viewings_scheduled == Get(m, "Viewings Scheduled")
      viewings_completed == Get(m, "Viewings Completed")
      offers == Get(m, "Offers Made")
      offers_accepted == Get(m, "Offers Accepted")
      closed == Get(m, "Closed Sales")
  IN [lead_to_qual_rate |-> GuardedPct(qualified, total),
      qual_to_sched_rate |-> GuardedPct(qualified, viewings_scheduled),
      sched_to_comp_rate |-> GuardedPct(viewings_completed, viewings_scheduled),
      comp_to_offer_rate |-> GuardedPct(offers, viewings_completed),
      offer_to_accept_rate |-> GuardedPct(offers_accepted, offers),
      accept_to_close_rate |-> GuardedPct(closed, offers_accepted),
      overall_close_rate |-> GuardedPct(closed, total)]

main_rates(m) ==
  LET total == Get(m, "Total Leads")
      qualified == Get(m, "Qualified Leads")
      viewings_scheduled == Get(m, "Viewings Scheduled")
      viewings_completed == Get(m, "Viewings Completed")
      offers == Get(m, "Offers Made")
      offers_accepted == Get(m, "Offers Accepted")
      closed == Get(m, "Closed Sales")
  IN [lead_to_qual_rate |-> GuardedPct(qualified, total),
      qual_to_sched_rate |-> GuardedPct(viewings_scheduled, qualified),
      sched_to_comp_rate |-> GuardedPct(viewings_completed, viewings_scheduled),
      comp_to_offer_rate |-> GuardedPct(offers, viewings_completed),
      offer_to_accept_rate |-> GuardedPct(offers_accepted, offers),
      accept_to_close_rate |-> GuardedPct(closed, offers_accepted),
      overall_close_rate |-> GuardedPct(closed, total)]

----------------------------------------------------------------------------
(* calculate_lead_temperature *)

Hot(m) ==
  Min(Get(m, "Viewings Completed"), Get(m, "Offers Made") + Get(m, "Offers Accepted"))

\* warm without "- hot"
WarmIncludingHot(m) ==
  Max(0, Min(Get(m, "Qualified Leads"),
             Get(m, "Viewings Scheduled") + Get(m, "Viewings Completed")))

Warm(m) ==
  Max(0, Min(Get(m, "Qualified Leads"),
             Get(m, "Viewings Scheduled") + Get(m, "Viewings Completed")) - Hot(m))

\* cold without the max(0, ...) clamp
ColdUnclamped(m) == Get(m, "Total Leads") - Hot(m) - Warm(m)

Cold(m) == Max(0, Get(m, "Total Leads") - Hot(m) - Warm(m))

\* the score scaled to a percentage like the fields next to it
QualityScoreAsPct(m) ==
  GuardedPct(Hot(m) * 3 + Warm(m) * 2 + Cold(m) * 1, Get(m, "Total Leads"))

\* (hot * 3 + warm * 2 + cold * 1) / total if total > 0 else 0
QualityScore(m) ==
  LET total == Get(m, "Total Leads")
  IN IF total > 0 THEN TrueDiv(Hot(m) * 3 + Warm(m) * 2 + Cold(m) * 1, total) ELSE Zero

\* the dict returned by the early return for total == 0
TemperatureOfNoLeads ==
  [hot |-> 0, warm |-> 0, cold |-> 0, hot_pct |-> Zero, warm_pct |-> Zero, cold_pct |-> Zero]

TemperatureRatKeys ==
  {"hot_pct", "warm_pct", "cold_pct", "hot_to_close", "warm_to_hot", "cold_to_warm",
   "quality_score"}

calculate_lead_temperature(m) ==
  LET total == Get(m, "Total Leads")
  IN IF total = 0
     THEN TemperatureOfNoLeads
     ELSE [hot |-> Hot(m),
           warm |-> Warm(m),
           cold |-> Cold(m),
           hot_pct |-> GuardedPct(Hot(m), total),
           warm_pct |-> GuardedPct(Warm(m), total),
           cold_pct |-> GuardedPct(Cold(m), total),
           hot_to_close |-> GuardedPct(Get(m, "Closed Sales"), Hot(m)),
           warm_to_hot |-> GuardedPct(Hot(m), Warm(m)),
           cold_to_warm |-> GuardedPct(Warm(m), Cold(m)),
           quality_score |-> QualityScore(m)]

----------------------------------------------------------------------------
(* calculate_bottleneck *)

conversion_stages(m) ==
  <<[stage |-> "Lead -> Qualified",
     from |-> Get(m, "Total Leads"), to |-> Get(m, "Qualified Leads")],
    [stage |-> "Qualified -> Viewing",
     from |-> Get(m, "Qualified Leads"), to |-> Get(m, "Viewings Completed")],
    [stage |-> "Viewing -> Offer",
     from |-> Get(m, "Viewings Completed"), to |-> Get(m, "Offers Made")],
    [stage |-> "Offer -> Accepted",
     from |-> Get(m, "Offers Made"), to |-> Get(m, "Offers Accepted")],
    [stage |-> "Accepted -> Closed",
     from |-> Get(m, "Offers Accepted"), to |-> Get(m, "Closed Sales")]>>

\* the test applied to to_count instead of from_count
HasOutcome(c) == c.to > 0

\* if from_count > 0:
HasOpportunity(c) == c.from > 0

\* the dict appended for one stage pair
BottleneckEntry(c) ==
  [stage |-> c.stage,
   rate |-> Times(TrueDiv(c.to, c.from), 100),
   drop_off |-> c.from - c.to,
   from |-> c.from,
   to |-> c.to]

\* the loop over conversion_stages, from position i on
RECURSIVE CollectBottlenecks(_, _)
CollectBottlenecks(cs, i) ==
  IF i > Len(cs) THEN <<>>
  ELSE (IF HasOpportunity(cs[i]) THEN <<BottleneckEntry(cs[i])>> ELSE <<>>)
       \o CollectBottlenecks(cs, i + 1)

\* an unstable insertion: x goes in front of the elements with an equal key
InsertBeforeEqual(s, x) ==
  LET k == Cardinality({i \in 1..Len(s) : RatLess(s[i].rate, x.rate)})
  IN SubSeq(s, 1, k) \o <<x>> \o SubSeq(s, k + 1, Len(s))

\* an insertion for a descending sort (reverse=True)
InsertByRateDescending(s, x) ==
  LET k == Cardinality({i \in 1..Len(s) : RatLeq(x.rate, s[i].rate)})
  IN SubSeq(s, 1, k) \o <<x>> \o SubSeq(s, k + 1, Len(s))

\* x placed into the sorted list s behind every element whose key is not
\* greater: list.sort is stable
InsertByRate(s, x) ==
  LET k == Cardinality({i \in 1..Len(s) : RatLeq(s[i].rate, x.rate)})
  IN SubSeq(s, 1, k) \o <<x>> \o SubSeq(s, k + 1, Len(s))

RECURSIVE SortPrefix(_, _)
SortPrefix(s, n) == IF n = 0 THEN <<>> ELSE InsertByRate(SortPrefix(s, n - 1), s[n])

\* the list left in the order it was built in
Unsorted(s) == s

\* bottlenecks.sort(key=lambda x: x['rate'])
SortByRate(s) == SortPrefix(s, Len(s))

calculate_bottleneck(m) == SortByRate(CollectBottlenecks(conversion_stages(m), 1))

BottleneckRaises(bs) == \E i \in 1..Len(bs) : IsError(bs[i].rate)

----------------------------------------------------------------------------
(* Floats.  The quotients and products of calculate_projections are        *)
(* truncated by int(), so their rounding is modelled bit for bit.  A       *)
(* non-negative double is [m |-> <<l0, l1, l2, l3, l4>>, e |-> e]: the     *)
(* 53-bit significand in limbs of 13 bits below the leading bit l0 = 1,    *)
(* and the exponent of the leading bit; its value is                       *)
(* (l0 * 2^52 + l1 * 2^39 + l2 * 2^26 + l3 * 2^13 + l4) * 2^(e - 52).      *)
(* Every operation rounds to nearest, ties to even, as IEEE 754 does.      *)

Limb == 8192

HalfLimb == 4096

RECURSIVE Pow2(_)
Pow2(k) == IF k = 0 THEN 1 ELSE 2 * Pow2(k - 1)

FloatZero == [m |-> <<0, 0, 0, 0, 0>>, e |-> 0]

FloatOne == [m |-> <<1, 0, 0, 0, 0>>, e |-> 0]

\* the value a float operation leaves when it raised ZeroDivisionError
FloatRaised == [m |-> <<0, 0, 0, 0, 0>>, e |-> -1]

IsFloatZero(x) == x = FloatZero

\* significand + 1, renormalised when it reaches 2^53
SigSucc(m, e) ==
  LET c4 == m[5] + 1
      c3 == m[4] + (c4 \div Limb)
      c2 == m[3] + (c3 \div Limb)
      c1 == m[2] + (c2 \div Limb)
      c0 == m[1] + (c1 \div Limb)
  IN IF c0 = 2
     THEN [m |-> <<1, 0, 0, 0, 0>>, e |-> e + 1]
     ELSE [m |-> <<c0, c1 % Limb, c2 % Limb, c3 % Limb, c4 % Limb>>, e |-> e]

\* round to nearest even: up says the discarded part is above one half,
\* tie that it is exactly one half
RoundSig(m, e, up, tie) ==
  IF up \/ (tie /\ m[5] % 2 = 1) THEN SigSucc(m, e) ELSE [m |-> m, e |-> e]

\* the exponent of the leading bit of a / b, for integers a, b > 0
RECURSIVE QuotExp(_, _)
QuotExp(a, b) ==
  IF a < b THEN QuotExp(2 * a, b) - 1
  ELSE IF a >= 2 * b THEN QuotExp(a, 2 * b) + 1
  ELSE 0

\* a / b for integers a >= 0, b > 0: long division, 13 bits at a time
IntQuot(a, b) ==
  LET e == QuotExp(a, b)
      num == IF e < 0 THEN a * Pow2(0 - e) ELSE a
      den == IF e > 0 THEN b * Pow2(e) ELSE b
      r0 == num - den
      d1 == (r0 * Limb) \div den
      r1 == (r0 * Limb) % den
      d2 == (r1 * Limb) \div den
      r2 == (r1 * Limb) % den
      d3 == (r2 * Limb) \div den
      r3 == (r2 * Limb) % den
      d4 == (r3 * Limb) \div den
      r4 == (r3 * Limb) % den
  IN RoundSig(<<1, d1, d2, d3, d4>>, e, 2 * r4 > den, 2 * r4 = den)

\* float(a) / float(b) for the integer counts a, b
FloatTrueDiv(a, b) ==
  IF b = 0 THEN FloatRaised ELSE IF a = 0 THEN FloatZero ELSE IntQuot(a, b)

\* float(k) for an integer k >= 0
FloatOfInt(k) == FloatTrueDiv(k, 1)

\* x * y
FloatMul(x, y) ==
  IF x = FloatRaised \/ y = FloatRaised THEN FloatRaised
  ELSE IF IsFloatZero(x) \/ IsFloatZero(y) THEN FloatZero
  ELSE
    LET a == x.m
        b == y.m
        \* column sums of the schoolbook product, lowest column first
        s8 == a[5] * b[5]
        s7 == a[4] * b[5] + a[5] * b[4] + (s8 \div Limb)
        s6 == a[3] * b[5] + a[4] * b[4] + a[5] * b[3] + (s7 \div Limb)
        s5 == a[2] * b[5] + a[3] * b[4] + a[4] * b[3] + a[5] * b[2] + (s6 \div Limb)
        s4 == a[1] * b[5] + a[2] * b[4] + a[3] * b[3] + a[4] * b[2] + a[5] * b[1]
              + (s5 \div Limb)
        s3 == a[1] * b[4] + a[2] * b[3] + a[3] * b[2] + a[4] * b[1] + (s4 \div Limb)
        s2 == a[1] * b[3] + a[2] * b[2] + a[3] * b[1] + (s3 \div Limb)
        s1 == a[1] * b[2] + a[2] * b[1] + (s2 \div Limb)
        s0 == a[1] * b[1] + (s1 \div Limb)
        p1 == s1 % Limb
        p2 == s2 % Limb
        p3 == s3 % Limb
        p4 == s4 % Limb
        p5 == s5 % Limb
        low == (s6 % Limb) + (s7 % Limb) + (s8 % Limb)
        e == x.e + y.e
    IN IF s0 = 1
       THEN RoundSig(<<1, p1, p2, p3, p4>>, e,
                     p5 > HalfLimb \/ (p5 = HalfLimb /\ low > 0),
                     p5 = HalfLimb /\ low = 0)
       ELSE RoundSig(<<1,
                       ((s0 % 2) * HalfLimb) + (p1 \div 2),
                       ((p1 % 2) * HalfLimb) + (p2 \div 2),
                       ((p2 % 2) * HalfLimb) + (p3 \div 2),
                       ((p3 % 2) * HalfLimb) + (p4 \div 2)>>,
                     e + 1,
                     p4 % 2 = 1 /\ (p5 + low > 0),
                     p4 % 2 = 1 /\ (p5 + low = 0))

\* a >= b for significands (the top limb may exceed 1)
SigGeq(a, b) ==
  \/ a[1] > b[1]
  \/ a[1] = b[1] /\ a[2] > b[2]
  \/ a[1] = b[1] /\ a[2] = b[2] /\ a[3] > b[3]
  \/ a[1] = b[1] /\ a[2] = b[2] /\ a[3] = b[3] /\ a[4] > b[4]
  \/ a[1] = b[1] /\ a[2] = b[2] /\ a[3] = b[3] /\ a[4] = b[4] /\ a[5] >= b[5]

\* a - b for significands a >= b
SigSub(a, b) ==
  LET d4 == a[5] - b[5]
      w4 == IF d4 < 0 THEN 1 ELSE 0
      d3 == a[4] - b[4] - w4
      w3 == IF d3 < 0 THEN 1 ELSE 0
      d2 == a[3] - b[3] - w3
      w2 == IF d2 < 0 THEN 1 ELSE 0
      d1 == a[2] - b[2] - w2
      w1 == IF d1 < 0 THEN 1 ELSE 0
  IN <<a[1] - b[1] - w1, d1 + w1 * Limb, d2 + w2 * Limb, d3 + w3 * Limb, d4 + w4 * Limb>>

\* 2 * a for a significand
SigDouble(a) ==
  <<2 * a[1] + (a[2] \div HalfLimb),
    ((2 * a[2]) % Limb) + (a[3] \div HalfLimb),
    ((2 * a[3]) % Limb) + (a[4] \div HalfLimb),
    ((2 * a[4]) % Limb) + (a[5] \div HalfLimb),
    (2 * a[5]) % Limb>>

\* n further bits of the quotient r / d (r < d), above the bits in q
RECURSIVE QuotBits(_, _, _, _)
QuotBits(r, d, n, q) ==
  IF n = 0 THEN [q |-> q, r |-> r]
  ELSE LET r2 == SigDouble(r)
       IN IF SigGeq(r2, d)
          THEN QuotBits(SigSub(r2, d), d, n - 1, 2 * q + 1)
          ELSE QuotBits(r2, d, n - 1, 2 * q)

\* x / y
FloatDiv(x, y) ==
  IF x = FloatRaised \/ y = FloatRaised \/ IsFloatZero(y) THEN FloatRaised
  ELSE IF IsFloatZero(x) THEN FloatZero
  ELSE
    LET big == SigGeq(x.m, y.m)
        n == IF big THEN x.m ELSE SigDouble(x.m)
        e == IF big THEN x.e - y.e ELSE x.e - y.e - 1
        b1 == QuotBits(SigSub(n, y.m), y.m, 13, 0)
        b2 == QuotBits(b1.r, y.m, 13, 0)
        b3 == QuotBits(b2.r, y.m, 13, 0)
        b4 == QuotBits(b3.r, y.m, 13, 0)
        twice == SigDouble(b4.r)
    IN RoundSig(<<1, b1.q, b2.q, b3.q, b4.q>>, e,
                SigGeq(twice, y.m) /\ twice # y.m, twice = y.m)

\* x <= y for floats
FloatLeq(x, y) ==
  \/ IsFloatZero(x)
  \/ ~IsFloatZero(y) /\ (x.e < y.e \/ (x.e = y.e /\ SigGeq(y.m, x.m)))

\* min(x, y)
FloatMin(x, y) ==
  IF x = FloatRaised \/ y = FloatRaised THEN FloatRaised
  ELSE IF FloatLeq(y, x) /\ y # x THEN y ELSE x

\* int(x): the integer part (below 2^26)
FloatToInt(x) ==
  IF x = FloatRaised \/ IsFloatZero(x) \/ x.e < 0 THEN 0
  ELSE IF x.e <= 13 THEN x.m[1] * Pow2(x.e) + (x.m[2] \div Pow2(13 - x.e))
  ELSE x.m[1] * Pow2(x.e) + x.m[2] * Pow2(x.e - 13) + (x.m[3] \div Pow2(26 - x.e))

----------------------------------------------------------------------------
(* calculate_projections *)

projection_input == 100

\* int(projection_input * rate)
Projected(rate) == FloatToInt(FloatMul(FloatOfInt(projection_input), rate))

\* the literals 1.1 and 1.0
OnePointOne == FloatTrueDiv(11, 10)

\* min(rate * 1.1, 1.0)
Improved(rate) == FloatMin(FloatMul(rate, OnePointOne), FloatOne)

\* int(projection_input * min(qual_rate * 1.1, 1.0) * close_rate / qual_rate)
\*   if qual_rate > 0 else 0
IfQualImproves(qual_rate, close_rate) ==
  IF ~IsFloatZero(qual_rate)
  THEN FloatToInt(FloatDiv(FloatMul(FloatMul(FloatOfInt(projection_input),
                                             Improved(qual_rate)),
                                    close_rate),
                           qual_rate))
  ELSE 0

\* int(projection_input * close_rate / viewing_rate * min(viewing_rate * 1.1, 1.0))
\*   if viewing_rate > 0 else 0
IfViewingImproves(viewing_rate, close_rate) ==
  IF ~IsFloatZero(viewing_rate)
  THEN FloatToInt(FloatMul(FloatDiv(FloatMul(FloatOfInt(projection_input), close_rate),
                                    viewing_rate),
                           Improved(viewing_rate)))
  ELSE 0

\* the body after the guard: the four rates relative to total, the
\* projected counts and the two scenarios
ProjectionDict(m, total) ==
  LET qual_rate == FloatTrueDiv(Get(m, "Qualified Leads"), total)
      viewing_rate == FloatTrueDiv(Get(m, "Viewings Completed"), total)
      offer_rate == FloatTrueDiv(Get(m, "Offers Made"), total)
      close_rate == FloatTrueDiv(Get(m, "Closed Sales"), total)
  IN [input_leads |-> projection_input,
      projected_qualified |-> Projected(qual_rate),
      projected_viewings |-> Projected(viewing_rate),
      projected_offers |-> Projected(offer_rate),
      projected_closed |-> Projected(close_rate),
      current_close_rate |-> FloatMul(close_rate, FloatOfInt(100)),
      if_qual_improves_10 |-> IfQualImproves(qual_rate, close_rate),
      if_viewing_improves_10 |-> IfViewingImproves(viewing_rate, close_rate)]

\* calculate_projections without its `if total == 0` guard
calculate_projections_unguarded(m) == ProjectionDict(m, Get(m, "Total Leads"))

calculate_projections(m) ==
  LET total == Get(m, "Total Leads")
  IN IF total = 0 THEN EmptyDict ELSE ProjectionDict(m, total)

\* a division inside calculate_projections raised
ProjectionsRaises(r) ==
  "current_close_rate" \in DOMAIN r /\ r.current_close_rate = FloatRaised

----------------------------------------------------------------------------
(* The Metrics table and calculate_metrics *)

\* A cell of the Count column as get_all_records delivers it: an int, a
\* float (n counts halves, so n = 3 is 1.5), or text it could not read as a
\* number.
IntCell(n) == [type |-> "int", n |-> n]

FloatCell(n) == [type |-> "float", n |-> n]

TextCell == [type |-> "str", n |-> 0]

Cells == {IntCell(n) : n \in Counts} \cup {FloatCell(3), TextCell}

\* Stage labels of the rows enumerated: two funnel stages and a label that is
\* no funnel stage.
Labels == {"Total Leads", "Closed Sales", "Enquiries"}

MaxRows == 3

Rows == [Stage : Labels, Count : Cells]

\* pd.DataFrame(): no columns, no rows
EmptyTable == [columns |-> {}, rows |-> <<>>]

\* tables that lack the Stage or the Count column
MissingColumnTables ==
  {EmptyTable}
    \cup {[columns |-> {"Stage"}, rows |-> <<[Stage |-> l]>>] : l \in Labels}
    \cup {[columns |-> {"Count"}, rows |-> <<[Count |-> c]>>] : c \in Cells}

Tables ==
  {[columns |-> {"Stage", "Count"}, rows |-> r] :
      r \in UNION {[1..n -> Rows] : n \in 0..MaxRows}}
    \cup MissingColumnTables

\* the dict returned for a table without rows or without the two columns
ZeroMetrics == [s \in StageSet |-> 0]

\* int(count)
IntOf(cell) == IF cell.type = "float" THEN cell.n \div 2 ELSE cell.n

\* int(count) raises ValueError
IntRaises(cell) == cell.type = "str"

\* metrics[stage] = v, keeping the value of the first row of a stage
PutFirst(d, k, v) == [x \in DOMAIN d \cup {k} |-> IF x \in DOMAIN d THEN d[x] ELSE v]

\* metrics[stage] = v
Put(d, k, v) == [x \in DOMAIN d \cup {k} |-> IF x = k THEN v ELSE d[x]]

\* the loop over df.iterrows(), from the dict start, over the first n rows
RECURSIVE CollectMetrics(_, _, _)
CollectMetrics(start, rows, n) ==
  IF n = 0 THEN start
  ELSE Put(CollectMetrics(start, rows, n - 1), rows[n].Stage, IntOf(rows[n].Count))

\* df.empty or 'Stage' not in df.columns or 'Count' not in df.columns
NoMetricsIn(t) ==
  t.rows = <<>> \/ "Stage" \notin t.columns \/ "Count" \notin t.columns

\* calculate_metrics with the loop starting from the seven zero counts
calculate_metrics_defaulted(t) ==
  IF NoMetricsIn(t) THEN ZeroMetrics
  ELSE CollectMetrics(ZeroMetrics, t.rows, Len(t.rows))

calculate_metrics(t) ==
  IF NoMetricsIn(t) THEN ZeroMetrics
  ELSE CollectMetrics(EmptyDict, t.rows, Len(t.rows))

\* calculate_metrics raises: some int(count) of the loop does
MetricsRaises(t) ==
  ~NoMetricsIn(t) /\ \E i \in 1..Len(t.rows) : IntRaises(t.rows[i].Count)

----------------------------------------------------------------------------
(* The state: the snapshot of one refresh, the derivations applied to it   *)
(* so far, the ones that raised, and the value each one returned.          *)

Derivations ==
  {"main_rates", "calculate_bottleneck", "calculate_projections",
   "calculate_lead_temperature"}

\* the session state main sets up on its first run
NewSession == [show_ai_insights |-> FALSE, ai_insights_cache |-> EmptyDict]

\* nothing rendered yet
BlankPage ==
  [page |-> "blank", buttons |-> {}, metrics |-> EmptyDict, insights |-> EmptyDict]

\* a process that has not run main yet: no derivation applied, caches empty
Started ==
  /\ called = {}
  /\ raised = {}
  /\ again = {}
  /\ rates = EmptyDict
  /\ bottlenecks = <<>>
  /\ projections = EmptyDict
  /\ temp_data = EmptyDict
  /\ last_update = FALSE
  /\ client_cache = <<>>
  /\ load_cache = <<>>
  /\ session_state = NewSession
  /\ rendered = BlankPage
  /\ progress = <<>>
  /\ temp_trend_df = <<>>
  /\ source_temp_df = <<>>
  /\ stats = EmptyDict
  /\ stats_v2 = EmptyDict

\* the deployment as configured: URL set, libraries importable, API key set
Configured ==
  [GOOGLE_SHEETS_URL |-> TRUE, GOOGLE_SHEETS_AVAILABLE |-> TRUE,
   AI_AVAILABLE |-> TRUE, ANTHROPIC_API_KEY |-> TRUE]

\* a spreadsheet with an empty Metrics sheet and no other sheet
NoWorkbook ==
  [up |-> TRUE, worksheets |-> {"Metrics"}, sheet |-> EmptyTable,
   daily |-> EmptyTable, whatsapp |-> EmptyTable]

\* a configured deployment that has loaded no series and no lead tracker
Installed ==
  /\ env = Configured
  /\ daily_df = <<>>
  /\ whatsapp_df = <<>>
  /\ leads = EmptyTable

Init ==
  /\ metrics \in Snapshots
  /\ df = EmptyTable
  /\ credentials = TRUE
  /\ source = NoWorkbook
  /\ Installed
  /\ Started

\* main(): lead_to_qual_rate ... overall_close_rate
MainRates ==
  /\ "main_rates" \notin called
  /\ called' = called \cup {"main_rates"}
  /\ LET r == main_rates(metrics)
     IN IF DictRaises(r, RateKeys)
        THEN raised' = raised \cup {"main_rates"} /\ UNCHANGED rates
        ELSE rates' = r /\ UNCHANGED raised
  /\ UNCHANGED <<metrics, bottlenecks, projections, temp_data, again, app>>

\* calculate_bottleneck taking 'Total Leads' out of the dict it is given
\* (metrics.pop in place of metrics.get)
CalculateBottleneckConsuming ==
  /\ "calculate_bottleneck" \notin called
  /\ called' = called \cup {"calculate_bottleneck"}
  /\ LET r == calculate_bottleneck(metrics)
     IN IF BottleneckRaises(r)
        THEN raised' = raised \cup {"calculate_bottleneck"} /\ UNCHANGED bottlenecks
        ELSE bottlenecks' = r /\ UNCHANGED raised
  /\ metrics' = [k \in DOMAIN metrics \ {"Total Leads"} |-> metrics[k]]
  /\ UNCHANGED <<rates, projections, temp_data, again, app>>

\* bottlenecks = calculate_bottleneck(metrics)
CalculateBottleneck ==
  /\ "calculate_bottleneck" \notin called
  /\ called' = called \cup {"calculate_bottleneck"}
  /\ LET r == calculate_bottleneck(metrics)
     IN IF BottleneckRaises(r)
        THEN raised' = raised \cup {"calculate_bottleneck"} /\ UNCHANGED bottlenecks
        ELSE bottlenecks' = r /\ UNCHANGED raised
  /\ UNCHANGED <<metrics, rates, projections, temp_data, again, app>>

\* projections = calculate_projections(metrics)
CalculateProjections ==
  /\ "calculate_projections" \notin called
  /\ called' = called \cup {"calculate_projections"}
  /\ LET r == calculate_projections(metrics)
     IN IF ProjectionsRaises(r)
        THEN raised' = raised \cup {"calculate_projections"} /\ UNCHANGED projections
        ELSE projections' = r /\ UNCHANGED raised
  /\ UNCHANGED <<metrics, rates, bottlenecks, temp_data, again, app>>

\* temp_data = calculate_lead_temperature(metrics)
CalculateLeadTemperature ==
  /\ "calculate_lead_temperature" \notin called
  /\ called' = called \cup {"calculate_lead_temperature"}
  /\ LET r == calculate_lead_temperature(metrics)
     IN IF DictRaises(r, TemperatureRatKeys)
        THEN raised' = raised \cup {"calculate_lead_temperature"} /\ UNCHANGED temp_data
        ELSE temp_data' = r /\ UNCHANGED raised
  /\ UNCHANGED <<metrics, rates, bottlenecks, projections, again, app>>

\* r / k, k a positive integer
DividedBy(r, k) == IF IsError(r) THEN r ELSE Rat(r.n, r.d * k)

\* main(): the stages of stages_progress, in order
progress_stages ==
  <<"Qualified Leads", "Viewings Completed", "Offers Made", "Offers Accepted",
    "Closed Sales">>

\* main(): percentage / 100 of each entry of stages_progress
stages_progress(m) ==
  [i \in DOMAIN progress_stages |->
     DividedBy(GuardedPct(Get(m, progress_stages[i]), Get(m, "Total Leads")), 100)]

\* st.progress(value) raises StreamlitAPIException outside [0.0, 1.0]
ProgressAccepts(value) == RatLeq(Zero, value) /\ RatLeq(value, Rat(1, 1))

\* the values st.progress is given until one is refused (that one included)
ProgressPassed(m, show_funnel) ==
  LET values == stages_progress(m)
      refused == {i \in DOMAIN values : ~ProgressAccepts(values[i])}
      last == IF refused = {} THEN Len(values)
              ELSE CHOOSE i \in refused : \A j \in refused : i <= j
  IN IF Get(m, "Total Leads") > 0 /\ show_funnel
     THEN SubSeq(values, 1, last)
     ELSE <<>>

ProgressRaises(m, show_funnel) ==
  \E i \in DOMAIN ProgressPassed(m, show_funnel) :
     ~ProgressAccepts(ProgressPassed(m, show_funnel)[i])

\* main(): the funnel section, "if total > 0 and show_funnel", with the
\* sidebar checkbox either way
StagesProgress ==
  /\ "stages_progress" \notin called
  /\ called' = called \cup {"stages_progress"}
  /\ \E show_funnel \in BOOLEAN :
       /\ progress' = ProgressPassed(metrics, show_funnel)
       /\ raised' = IF ProgressRaises(metrics, show_funnel)
                    THEN raised \cup {"stages_progress"}
                    ELSE raised
  /\ UNCHANGED <<metrics, derived, again, store, env, series, trends, tracker>>

NextProgress == StagesProgress

\* the funnel section over the snapshots
SpecProgress == Init /\ [][NextProgress]_vars

Next ==
  \/ MainRates
  \/ CalculateBottleneck
  \/ CalculateProjections
  \/ CalculateLeadTemperature

Spec == Init /\ [][Next]_vars

----------------------------------------------------------------------------
(* Properties *)

\* the derivation f has been applied to the snapshot and returned
Returned(f) == f \in called /\ f \notin raised

Total == Get(metrics, "Total Leads")

\* hot + warm <= Total Leads, stated on the stage counts
TiersFitTotal ==
  /\ Min(Get(metrics, "Viewings Completed"),
         Get(metrics, "Offers Made") + Get(metrics, "Offers Accepted")) <= Total
  /\ Min(Get(metrics, "Qualified Leads"),
         Get(metrics, "Viewings Scheduled") + Get(metrics, "Viewings Completed")) <= Total

TierSum == temp_data.hot + temp_data.warm + temp_data.cold

\* C1 as stated: for every snapshot the three tiers returned by
\* calculate_lead_temperature add up to Total Leads.
C1_TiersAlwaysSumToTotal ==
  Returned("calculate_lead_temperature") => TierSum = Total

\* C1, amended: the tiers add up to Total Leads exactly when Total Leads is 0
\* or hot + warm does not exceed Total Leads (min(Viewings Completed, Offers
\* Made + Offers Accepted) <= Total Leads and min(Qualified Leads, Viewings
\* Scheduled + Viewings Completed) <= Total Leads); otherwise cold is clamped
\* to 0 and the sum is hot + warm, above Total Leads.
C1_TiersSumToTotalWhenTheyFit ==
  "calculate_lead_temperature" \in called =>
    /\ Returned("calculate_lead_temperature")
    /\ (TierSum = Total) <=> (Total = 0 \/ TiersFitTotal)
    /\ ~(Total = 0 \/ TiersFitTotal) => temp_data.cold = 0 /\ TierSum > Total

C1_Witness ==
  /\ Returned("calculate_lead_temperature")
  /\ temp_data.hot > 0 /\ temp_data.warm > 0 /\ temp_data.cold > 0
  /\ TierSum = Total

\* C2 as stated: whenever calculate_lead_temperature returns a quality
\* score, the score lies in [0, 3].
C2_ScoreAlwaysWithinThree ==
  (Returned("calculate_lead_temperature") /\ "quality_score" \in DOMAIN temp_data) =>
    /\ RatLeq(Zero, temp_data.quality_score)
    /\ RatLeq(temp_data.quality_score, Rat(3, 1))

\* C2, amended: for every snapshot with Total Leads > 0 whose hot + warm
\* does not exceed Total Leads, the quality score lies in [0, 3].
C2_ScoreWithinThreeWhenTiersFit ==
  ("calculate_lead_temperature" \in called /\ Total > 0 /\ TiersFitTotal) =>
    /\ Returned("calculate_lead_temperature")
    /\ "quality_score" \in DOMAIN temp_data
    /\ RatLeq(Zero, temp_data.quality_score)
    /\ RatLeq(temp_data.quality_score, Rat(3, 1))

C2_Witness ==
  /\ Returned("calculate_lead_temperature")
  /\ Total > 0 /\ TiersFitTotal
  /\ temp_data.hot > 0 /\ temp_data.cold > 0
  /\ RatLess(Rat(1, 1), temp_data.quality_score)
  /\ RatLess(temp_data.quality_score, Rat(3, 1))

\* C3: each tier count returned by calculate_lead_temperature is >= 0.
C3_TiersNonNegative ==
  "calculate_lead_temperature" \in called =>
    /\ Returned("calculate_lead_temperature")
    /\ temp_data.hot >= 0
    /\ temp_data.warm >= 0
    /\ temp_data.cold >= 0

\* both clamps act: hot alone exceeds Total Leads and the qualified pool
C3_Witness ==
  /\ Returned("calculate_lead_temperature")
  /\ Total > 0
  /\ temp_data.hot > Total
  /\ temp_data.hot > Get(metrics, "Qualified Leads")
  /\ temp_data.warm = 0 /\ temp_data.cold = 0

\* the rates of main whose denominator is Total Leads
TotalRateKeys == {"lead_to_qual_rate", "overall_close_rate"}

\* C4 as stated: with Total Leads = 0 every derivation returns, and returns
\* 0 or an empty result (for calculate_bottleneck: no entry, or entries of
\* rate 0 only).
C4_NoLeadsGivesZeroOrEmpty ==
  Total = 0 =>
    /\ raised = {}
    /\ Returned("main_rates") => \A k \in RateKeys : rates[k] = Zero
    /\ Returned("calculate_bottleneck") =>
         \A i \in 1..Len(bottlenecks) : bottlenecks[i].rate = Zero
    /\ Returned("calculate_projections") => projections = EmptyDict
    /\ Returned("calculate_lead_temperature") =>
         /\ temp_data.hot = 0 /\ temp_data.warm = 0 /\ temp_data.cold = 0
         /\ temp_data.hot_pct = Zero /\ temp_data.warm_pct = Zero
         /\ temp_data.cold_pct = Zero

\* C4, amended: with Total Leads = 0 no derivation raises; the two rates
\* over Total Leads are 0, calculate_projections returns the empty dict,
\* calculate_lead_temperature returns zero counts and zero percentages and
\* calculate_bottleneck returns no Lead -> Qualified entry; an adjacent rate
\* or bottleneck entry of a later pair is 0 or absent only when that pair's
\* own source count is 0, and is computed from the counts otherwise.
C4_NoLeadsNeverRaises ==
  Total = 0 =>
    /\ raised = {}
    /\ Returned("main_rates") =>
         /\ \A k \in TotalRateKeys : rates[k] = Zero
         /\ Get(metrics, "Qualified Leads") = 0 => rates.qual_to_sched_rate = Zero
         /\ Get(metrics, "Viewings Scheduled") = 0 => rates.sched_to_comp_rate = Zero
         /\ Get(metrics, "Viewings Completed") = 0 => rates.comp_to_offer_rate = Zero
         /\ Get(metrics, "Offers Made") = 0 => rates.offer_to_accept_rate = Zero
         /\ Get(metrics, "Offers Accepted") = 0 => rates.accept_to_close_rate = Zero
    /\ Returned("calculate_bottleneck") =>
         /\ \A i \in 1..Len(bottlenecks) :
              bottlenecks[i].stage # "Lead -> Qualified" /\ bottlenecks[i].from > 0
         /\ (\A st \in StageSet \ {"Closed Sales"} : Get(metrics, st) = 0) =>
              bottlenecks = <<>>
    /\ Returned("calculate_projections") => projections = EmptyDict
    /\ Returned("calculate_lead_temperature") =>
         /\ temp_data.hot = 0 /\ temp_data.warm = 0 /\ temp_data.cold = 0
         /\ temp_data.hot_pct = Zero /\ temp_data.warm_pct = Zero
         /\ temp_data.cold_pct = Zero

\* every derivation has run on a snapshot without leads whose later stages
\* are populated
C4_Witness ==
  /\ Total = 0
  /\ called = Derivations /\ raised = {}
  /\ Get(metrics, "Qualified Leads") > 0
  /\ rates.qual_to_sched_rate # Zero
  /\ bottlenecks # <<>>

TemperatureKeys ==
  {"hot", "warm", "cold", "hot_pct", "warm_pct", "cold_pct", "hot_to_close",
   "warm_to_hot", "cold_to_warm", "quality_score"}

\* C5: with Total Leads = 0 the dict returned by calculate_lead_temperature
\* has the same fields as with Total Leads > 0, the quality score and the
\* three conversion indicators being 0 like the counts and percentages.
C5_NoLeadsBreakdownIsComplete ==
  (Returned("calculate_lead_temperature") /\ Total = 0) =>
    /\ DOMAIN temp_data = TemperatureKeys
    /\ temp_data.quality_score = Zero
    /\ temp_data.hot_to_close = Zero
    /\ temp_data.warm_to_hot = Zero
    /\ temp_data.cold_to_warm = Zero
    /\ temp_data.hot = 0 /\ temp_data.warm = 0 /\ temp_data.cold = 0
    /\ temp_data.hot_pct = Zero /\ temp_data.warm_pct = Zero /\ temp_data.cold_pct = Zero

\* the five stage pairs of the bottleneck analysis: label, source stage,
\* target stage, in funnel order
PairLabels ==
  <<"Lead -> Qualified", "Qualified -> Viewing", "Viewing -> Offer", "Offer -> Accepted",
    "Accepted -> Closed">>

PairSource ==
  <<"Total Leads", "Qualified Leads", "Viewings Completed", "Offers Made", "Offers Accepted">>

PairTarget ==
  <<"Qualified Leads", "Viewings Completed", "Offers Made", "Offers Accepted", "Closed Sales">>

\* the position of a label in the funnel order
PairIndex(label) == CHOOSE p \in 1..Len(PairLabels) : PairLabels[p] = label

\* the positions at which the pair p occurs in the returned list
Occurrences(p) == {i \in 1..Len(bottlenecks) : bottlenecks[i].stage = PairLabels[p]}

\* C6: calculate_bottleneck returns an entry for a stage pair if and only if
\* the pair's source count is > 0 (one entry, carrying the pair's counts); a
\* pair with source count 0 has no entry.
C6_PairIncludedIffSourcePositive ==
  "calculate_bottleneck" \in called =>
    /\ Returned("calculate_bottleneck")
    /\ \A i \in 1..Len(bottlenecks) : \E p \in 1..Len(PairLabels) : i \in Occurrences(p)
    /\ \A p \in 1..Len(PairLabels) :
         IF Get(metrics, PairSource[p]) > 0
         THEN /\ Cardinality(Occurrences(p)) = 1
              /\ \A i \in Occurrences(p) :
                   /\ bottlenecks[i].from = Get(metrics, PairSource[p])
                   /\ bottlenecks[i].to = Get(metrics, PairTarget[p])
         ELSE Occurrences(p) = {}

\* a pair without opportunity but with a positive target count is left out
\* while another pair is listed
C6_Witness ==
  /\ Returned("calculate_bottleneck")
  /\ bottlenecks # <<>>
  /\ \E p \in 1..Len(PairLabels) :
       /\ Get(metrics, PairSource[p]) = 0
       /\ Get(metrics, PairTarget[p]) > 0
       /\ Occurrences(p) = {}

\* C7: the list returned by calculate_bottleneck is ascending by rate, so
\* its first element has a rate <= that of every other element.
C7_SortedAscendingByRate ==
  Returned("calculate_bottleneck") =>
    \A i, j \in 1..Len(bottlenecks) :
      i < j => RatLeq(bottlenecks[i].rate, bottlenecks[j].rate)

\* the sort moved a later pair in front of an earlier one
C7_Witness ==
  /\ Returned("calculate_bottleneck")
  /\ \E i, j \in 1..Len(bottlenecks) :
       /\ i < j
       /\ PairIndex(bottlenecks[i].stage) > PairIndex(bottlenecks[j].stage)
       /\ RatLess(bottlenecks[i].rate, bottlenecks[j].rate)

\* C8: entries of equal rate appear in funnel order.
C8_TiesKeepFunnelOrder ==
  Returned("calculate_bottleneck") =>
    \A i, j \in 1..Len(bottlenecks) :
      (i < j /\ bottlenecks[i].rate = bottlenecks[j].rate) =>
        PairIndex(bottlenecks[i].stage) < PairIndex(bottlenecks[j].stage)

\* two entries tie while the sort moved a third one across them
C8_Witness ==
  /\ Returned("calculate_bottleneck")
  /\ \E i, j, k \in 1..Len(bottlenecks) :
       /\ i < j
       /\ bottlenecks[i].rate = bottlenecks[j].rate
       /\ PairIndex(bottlenecks[k].stage) > PairIndex(bottlenecks[j].stage)
       /\ k < i

\* C9 as stated: for the sample snapshot the first element returned by
\* calculate_bottleneck is Accepted -> Closed (10 -> 8, 80%).
C9_SampleWorstIsAcceptedToClosed ==
  (Returned("calculate_bottleneck") /\ metrics = Fixture) =>
    /\ bottlenecks[1].stage = "Accepted -> Closed"
    /\ bottlenecks[1].from = 10 /\ bottlenecks[1].to = 8
    /\ bottlenecks[1].rate = Rat(80, 1)

\* C9, amended: for the sample snapshot the first element (the critical
\* bottleneck) is Lead -> Qualified (150 -> 45, 30%), followed by Qualified
\* -> Viewing (25/45), Viewing -> Offer (60%) and Offer -> Accepted (10/15);
\* Accepted -> Closed (10 -> 8, 80%) is the last element, the pair that
\* converts best.
C9_SampleWorstIsLeadToQualified ==
  ("calculate_bottleneck" \in called /\ metrics = Fixture) =>
    /\ Returned("calculate_bottleneck")
    /\ bottlenecks[1] =
         [stage |-> "Lead -> Qualified", rate |-> Rat(30, 1), drop_off |-> 105,
          from |-> 150, to |-> 45]
    /\ [i \in 1..Len(bottlenecks) |-> bottlenecks[i].stage] = PairLabels
    /\ bottlenecks[2].rate = Rat(500, 9)
    /\ bottlenecks[3].rate = Rat(60, 1)
    /\ bottlenecks[4].rate = Rat(200, 3)
    /\ bottlenecks[5] =
         [stage |-> "Accepted -> Closed", rate |-> Rat(80, 1), drop_off |-> 2,
          from |-> 10, to |-> 8]

C9_Witness ==
  /\ Returned("calculate_bottleneck")
  /\ metrics = Fixture
  /\ Len(bottlenecks) = 5

\* the six adjacent pairs of the canonical order: rate, source, target
AdjacentRateKeys ==
  <<"lead_to_qual_rate", "qual_to_sched_rate", "sched_to_comp_rate", "comp_to_offer_rate",
    "offer_to_accept_rate", "accept_to_close_rate">>

\* the fraction r is the percentage b / a * 100
IsPctOf(r, b, a) == r.d > 0 /\ r.n * a = 100 * b * r.d

\* C10: each of the six adjacent rates of main is B / A * 100 when A > 0 and
\* 0 when A = 0, the overall close rate is Closed Sales / Total Leads * 100
\* or 0 when Total Leads = 0, and no division by zero is performed; for the
\* sample snapshot lead -> qualified is 30% and the close rate 8/150.
C10_AdjacentRates ==
  "main_rates" \in called =>
    /\ Returned("main_rates")
    /\ \A p \in 1..Len(AdjacentRateKeys) :
         LET a == Get(metrics, Stages[p])
             b == Get(metrics, Stages[p + 1])
             r == rates[AdjacentRateKeys[p]]
         IN IF a > 0 THEN IsPctOf(r, b, a) ELSE r = Zero
    /\ IF Total > 0
       THEN IsPctOf(rates.overall_close_rate, Get(metrics, "Closed Sales"), Total)
       ELSE rates.overall_close_rate = Zero
    /\ metrics = Fixture =>
         /\ rates.lead_to_qual_rate = Rat(30, 1)
         /\ rates.overall_close_rate = Rat(16, 3)

\* a guard acts next to a rate that is computed: an empty stage with a
\* populated successor, behind a populated pair
C10_Witness ==
  /\ Returned("main_rates")
  /\ Total > 0 /\ Get(metrics, "Qualified Leads") > 0
  /\ rates.lead_to_qual_rate # Zero
  /\ \E p \in 2..Len(AdjacentRateKeys) :
       /\ Get(metrics, Stages[p]) = 0
       /\ Get(metrics, Stages[p + 1]) > 0
       /\ rates[AdjacentRateKeys[p]] = Zero

\* the seven counts do not increase along the canonical stage order
NonIncreasingCounts ==
  \A p \in 1..(Len(Stages) - 1) : Get(metrics, Stages[p]) >= Get(metrics, Stages[p + 1])

\* C11 as stated: when the counts are non-increasing along the funnel, the
\* six adjacent rates of main are non-increasing along the funnel too.
C11_RatesNonIncreasing ==
  (Returned("main_rates") /\ NonIncreasingCounts) =>
    \A p \in 1..(Len(AdjacentRateKeys) - 1) :
      RatLeq(rates[AdjacentRateKeys[p + 1]], rates[AdjacentRateKeys[p]])

\* C11, amended: when the counts are non-increasing along the funnel, each
\* of the six adjacent rates lies between 0 and 100% and is at least the
\* overall close rate; the sequence of adjacent rates itself need not be
\* monotone (counts 2, 1, 1 give 50% followed by 100%).
C11_RatesWithinHundred ==
  ("main_rates" \in called /\ NonIncreasingCounts) =>
    /\ Returned("main_rates")
    /\ \A p \in 1..Len(AdjacentRateKeys) :
         /\ RatLeq(Zero, rates[AdjacentRateKeys[p]])
         /\ RatLeq(rates[AdjacentRateKeys[p]], Rat(100, 1))
         /\ RatLeq(rates.overall_close_rate, rates[AdjacentRateKeys[p]])

\* a well-formed funnel whose adjacent rates go up along the funnel
C11_Witness ==
  /\ Returned("main_rates")
  /\ NonIncreasingCounts
  /\ Get(metrics, "Closed Sales") > 0
  /\ \E p \in 1..(Len(AdjacentRateKeys) - 1) :
       RatLess(rates[AdjacentRateKeys[p]], rates[AdjacentRateKeys[p + 1]])

----------------------------------------------------------------------------
(* calculate_projections: projected counts and scenarios *)

\* the stage whose count each projected key is taken from
ProjectedStage ==
  [projected_qualified |-> "Qualified Leads",
   projected_viewings |-> "Viewings Completed",
   projected_offers |-> "Offers Made",
   projected_closed |-> "Closed Sales"]

\* C12: with Total Leads > 0 each projected count of calculate_projections is
\* 100 * stageCount / Total Leads truncated toward zero, the rate being
\* relative to Total Leads; the sample sheet gives projected_qualified = 30
\* and projected_closed = 5.
C12_ProjectedIsTruncatedShare ==
  (Returned("calculate_projections") /\ Total > 0) =>
    /\ \A k \in DOMAIN ProjectedStage :
         projections[k] = (100 * Get(metrics, ProjectedStage[k])) \div Total
    /\ metrics = Fixture =>
         projections.projected_qualified = 30 /\ projections.projected_closed = 5

\* C13: with Total Leads = 0 calculate_projections returns without raising,
\* and what it returns is the empty dict: it holds no projected count and no
\* scenario value.
C13_NoLeadsGivesEmptyProjection ==
  ("calculate_projections" \in called /\ Total = 0) =>
    /\ Returned("calculate_projections")
    /\ DOMAIN projections = {}

\* C13 as stated: with Total Leads = 0 every projected count and both
\* scenario values are returned as 0.
C13_NoLeadsGivesZeroProjection ==
  (Returned("calculate_projections") /\ Total = 0) =>
    \A k \in DOMAIN ProjectedStage \cup {"if_qual_improves_10", "if_viewing_improves_10"} :
      k \in DOMAIN projections /\ projections[k] = 0

C13_Witness ==
  /\ Returned("calculate_projections")
  /\ "Total Leads" \in DOMAIN metrics /\ Total = 0
  /\ Get(metrics, "Closed Sales") > 0

\* the exact value of 100 * min(rate * 1.1, 1.0) * closeRate / rate for
\* rate = count / Total > 0, truncated: the cap applies when 11 * count >=
\* 10 * Total
ExactScenario(count) ==
  IF 11 * count >= 10 * Total
  THEN (100 * Get(metrics, "Closed Sales")) \div count
  ELSE (110 * Get(metrics, "Closed Sales")) \div Total

\* C14: with Total Leads > 0 each scenario of calculate_projections is
\* trunc(100 * min(rate * 1.1, 1.0) * closeRate / rate) when the stage's rate
\* is positive, and 0 without a division by zero when the rate is 0.
C14_ScenarioIsTruncatedFormula ==
  ("calculate_projections" \in called /\ Total > 0) =>
    /\ Returned("calculate_projections")
    /\ projections.if_qual_improves_10 =
         IF Get(metrics, "Qualified Leads") > 0
         THEN ExactScenario(Get(metrics, "Qualified Leads")) ELSE 0
    /\ projections.if_viewing_improves_10 =
         IF Get(metrics, "Viewings Completed") > 0
         THEN ExactScenario(Get(metrics, "Viewings Completed")) ELSE 0

----------------------------------------------------------------------------
(* calculate_metrics applied to the Metrics table: main, line 1034 *)

InitMetrics ==
  /\ df \in Tables
  /\ metrics = EmptyDict
  /\ credentials = TRUE
  /\ source = NoWorkbook
  /\ Installed
  /\ Started

\* metrics = calculate_metrics(df); main has no handler around the call
CalculateMetrics ==
  /\ "calculate_metrics" \notin called
  /\ called' = called \cup {"calculate_metrics"}
  /\ IF MetricsRaises(df)
     THEN raised' = raised \cup {"calculate_metrics"} /\ UNCHANGED metrics
     ELSE metrics' = calculate_metrics(df) /\ UNCHANGED raised
  /\ UNCHANGED <<derived, again, app>>

NextMetrics == CalculateMetrics

SpecMetrics == InitMetrics /\ [][NextMetrics]_vars

\* the Stage labels of the rows of the table
StagesOf(t) == {t.rows[i].Stage : i \in 1..Len(t.rows)}

\* C15: calculate_metrics returns one entry per Stage label that has a row,
\* so a canonical stage with no row has no entry (its readers take 0 through
\* metrics.get(stage, 0)); only a table without rows or without the Stage or
\* Count column gives all seven canonical stages with count 0.
C15_OneEntryPerStageRow ==
  Returned("calculate_metrics") =>
    IF NoMetricsIn(df)
    THEN metrics = ZeroMetrics
    ELSE /\ DOMAIN metrics = StagesOf(df)
         /\ \A s \in StageSet \ StagesOf(df) : Get(metrics, s) = 0

\* C15 as stated: for a table with the Stage and Count columns the dict
\* returned holds all seven canonical stages, one without a row with
\* count 0.
C15_AllSevenStagesPresent ==
  (Returned("calculate_metrics") /\ {"Stage", "Count"} \subseteq df.columns) =>
    \A s \in StageSet :
      s \in DOMAIN metrics /\ (s \notin StagesOf(df) => metrics[s] = 0)

C15_Witness ==
  /\ Returned("calculate_metrics")
  /\ ~NoMetricsIn(df)
  /\ "Total Leads" \in DOMAIN metrics /\ metrics["Total Leads"] > 0
  /\ "Closed Sales" \notin DOMAIN metrics

\* row i is the only row of its stage
OnlyRowOfStage(t, i) ==
  \A j \in 1..Len(t.rows) : t.rows[j].Stage = t.rows[i].Stage => j = i

\* the table with its rows in the order q
Reordered(t, q) ==
  [columns |-> t.columns, rows |-> [i \in 1..Len(t.rows) |-> t.rows[q[i]]]]

\* C16: a stage with several rows gets the count of its last row, and the
\* count of a stage with one row is the same in every order of the rows.
C16_LastWriteWins ==
  (Returned("calculate_metrics") /\ ~NoMetricsIn(df)) =>
    /\ \A i \in 1..Len(df.rows) :
         (\A j \in (i + 1)..Len(df.rows) : df.rows[j].Stage # df.rows[i].Stage)
           => metrics[df.rows[i].Stage] = IntOf(df.rows[i].Count)
    /\ \A q \in Permutations(1..Len(df.rows)) :
         \A i \in 1..Len(df.rows) :
           OnlyRowOfStage(df, i) =>
             calculate_metrics(Reordered(df, q))[df.rows[i].Stage]
               = metrics[df.rows[i].Stage]

C16_Witness ==
  /\ Returned("calculate_metrics")
  /\ Len(df.rows) = 3
  /\ df.rows[1].Stage = "Total Leads" /\ df.rows[3].Stage = "Total Leads"
  /\ df.rows[2].Stage = "Closed Sales"
  /\ IntOf(df.rows[1].Count) > IntOf(df.rows[3].Count)
  /\ metrics["Total Leads"] = IntOf(df.rows[3].Count)

\* C17: a row whose Count cannot be parsed does not crash the refresh:
\* calculate_metrics returns and a stage with only such rows is left out or
\* counted as zero.
C17_UnparsableCountDoesNotCrash ==
  ("calculate_metrics" \in called /\ ~NoMetricsIn(df)) =>
    /\ Returned("calculate_metrics")
    /\ \A s \in StagesOf(df) :
         (\A i \in 1..Len(df.rows) :
            df.rows[i].Stage = s => IntRaises(df.rows[i].Count))
           => Get(metrics, s) = 0

----------------------------------------------------------------------------
(* The derivations applied a second time to the same snapshot *)

Repeatable ==
  {"calculate_bottleneck", "calculate_projections", "calculate_lead_temperature"}

InitRepeat ==
  /\ metrics \in RepeatSnapshots
  /\ df = EmptyTable
  /\ credentials = TRUE
  /\ source = NoWorkbook
  /\ Installed
  /\ Started

\* a second bottlenecks = calculate_bottleneck(metrics)
CalculateBottleneckAgain ==
  /\ "calculate_bottleneck" \in called \ again
  /\ again' = again \cup {"calculate_bottleneck"}
  /\ LET r == calculate_bottleneck(metrics)
     IN IF BottleneckRaises(r)
        THEN raised' = raised \cup {"calculate_bottleneck"} /\ UNCHANGED bottlenecks
        ELSE bottlenecks' = r /\ raised' = raised \ {"calculate_bottleneck"}
  /\ UNCHANGED <<metrics, called, rates, projections, temp_data, app>>

\* a second projections = calculate_projections(metrics)
CalculateProjectionsAgain ==
  /\ "calculate_projections" \in called \ again
  /\ again' = again \cup {"calculate_projections"}
  /\ LET r == calculate_projections(metrics)
     IN IF ProjectionsRaises(r)
        THEN raised' = raised \cup {"calculate_projections"} /\ UNCHANGED projections
        ELSE projections' = r /\ raised' = raised \ {"calculate_projections"}
  /\ UNCHANGED <<metrics, called, rates, bottlenecks, temp_data, app>>

\* a second temp_data = calculate_lead_temperature(metrics)
CalculateLeadTemperatureAgain ==
  /\ "calculate_lead_temperature" \in called \ again
  /\ again' = again \cup {"calculate_lead_temperature"}
  /\ LET r == calculate_lead_temperature(metrics)
     IN IF DictRaises(r, TemperatureRatKeys)
        THEN raised' = raised \cup {"calculate_lead_temperature"} /\ UNCHANGED temp_data
        ELSE temp_data' = r /\ raised' = raised \ {"calculate_lead_temperature"}
  /\ UNCHANGED <<metrics, called, rates, bottlenecks, projections, app>>

NextRepeat ==
  \/ MainRates
  \/ CalculateBottleneck
  \/ CalculateProjections
  \/ CalculateLeadTemperature
  \/ CalculateBottleneckAgain
  \/ CalculateProjectionsAgain
  \/ CalculateLeadTemperatureAgain

SpecRepeat == InitRepeat /\ [][NextRepeat]_vars

\* the second call of f gives what the first gave: the same value, or it
\* raises as the first did
SameAsBefore(f, before, after) ==
  f \in again' \ again =>
    /\ after = before
    /\ (f \in raised') = (f \in raised)

----------------------------------------------------------------------------
(* The Daily and WhatsApp sheets: what load_metrics_from_sheets makes of    *)
(* them, and the temperature tables computed from the Daily series.         *)

\* a Date cell that pd.to_datetime parses: day n
DateCell(n) == [type |-> "date", n |-> n]

\* what pd.to_datetime(errors='coerce') leaves of a cell it cannot parse
NaT == [type |-> "NaT", n |-> 0]

MaxDays == 3

LeadSources == {"Meta", "Google"}

\* a Source cell
SourceCell(s) == [type |-> "str", n |-> 0, text |-> s]

\* the rows enumerated for the Daily sheet: a date or a text that is none,
\* a Total Leads cell (no leads, two leads, a text), one viewing completed
\* with one offer made; the leads of day 1 are Meta's, the others Google's
DailyRows ==
  {("Date" :> d)
     @@ ("Source" :> SourceCell(IF d = DateCell(1) THEN "Meta" ELSE "Google"))
     @@ ("Total Leads" :> t) @@ ("Viewings Completed" :> IntCell(1))
     @@ ("Offers Made" :> IntCell(1)) :
     d \in {DateCell(n) : n \in 1..2} \cup {TextCell},
     t \in {IntCell(0), IntCell(2), TextCell}}

DailyColumns ==
  {"Date", "Source", "Total Leads", "Viewings Completed", "Offers Made"}

\* the table t without the column c
Without(t, c) ==
  [columns |-> t.columns \ {c},
   rows |-> [i \in DOMAIN t.rows |->
               [k \in DOMAIN t.rows[i] \ {c} |-> t.rows[i][k]]]]

\* Daily sheets of up to MaxDays rows, with all the columns, without the
\* Date column, without the Source column
DailyTables ==
  LET full == {[columns |-> DailyColumns, rows |-> r] :
                  r \in UNION {[1..n -> DailyRows] : n \in 0..MaxDays}}
  IN full \cup {Without(t, "Date") : t \in full}
          \cup {Without(t, "Source") : t \in full}

\* pd.to_datetime(cell, errors='coerce')
to_datetime(cell) == IF cell.type = "date" THEN cell ELSE NaT

\* pd.to_numeric(cell, errors='coerce') followed by fillna(0)
to_numeric(cell) == IF cell.type \in {"int", "float"} THEN cell ELSE IntCell(0)

\* rows with column c mapped through f(_)
MapColumn(rows, c, f(_)) ==
  [i \in DOMAIN rows |-> [k \in DOMAIN rows[i] |->
                            IF k = c THEN f(rows[i][k]) ELSE rows[i][k]]]

\* dropna left out
dropna_none(rows) == rows

\* dropna(subset=['Date'])
dropna(rows) == SelectSeq(rows, LAMBDA r : r["Date"] # NaT)

\* row r put into the sorted rows s after the rows whose date is not later
RECURSIVE Insert(_, _)
Insert(r, s) ==
  IF s = <<>> THEN <<r>>
  ELSE IF s[1]["Date"].n <= r["Date"].n
       THEN <<s[1]>> \o Insert(r, Tail(s))
       ELSE <<r>> \o s

\* sort_values('Date') on a frame of at most 16 rows, where numpy's sort is
\* an insertion sort: ascending, rows of one date in their order
RECURSIVE sort_values(_)
sort_values(rows) ==
  IF rows = <<>> THEN <<>>
  ELSE Insert(rows[Len(rows)], sort_values(SubSeq(rows, 1, Len(rows) - 1)))

\* the Date column converted, the rows without a date dropped, the rest
\* sorted: lines 609-612 and 633-636
ByDate(t) ==
  IF "Date" \in t.columns
  THEN [t EXCEPT !.rows = sort_values(dropna(MapColumn(t.rows, "Date", to_datetime)))]
  ELSE t

\* the columns cs of t converted to numbers: lines 615-620 and 638-643
RECURSIVE Numeric(_, _)
Numeric(t, cs) ==
  IF cs \cap t.columns = {} THEN t
  ELSE LET c == CHOOSE c \in cs \cap t.columns : TRUE
       IN Numeric([t EXCEPT !.rows = MapColumn(t.rows, c, to_numeric)], cs \ {c})

\* numeric_columns of the Daily sheet
daily_numeric_columns == StageSet \cup {"Daily Budget"}

\* numeric_columns of the WhatsApp sheet
whatsapp_numeric_columns ==
  {"Messages Answered", "Positive", "Negative", "Relevant", "Irrelevant",
   "Scheduled Leads"}

\* the metrics dict built from one row of the series: row.get(stage, 0)
RowMetrics(row) ==
  [s \in StageSet |-> IF s \in DOMAIN row THEN row[s].n ELSE 0]

\* temp['quality_score'] raises KeyError on the dict of the early return
ScoreMissing(m) == "quality_score" \notin DOMAIN calculate_lead_temperature(m)

\* daily_df is None or daily_df.empty
NoneOrEmpty(frame) == frame = <<>> \/ frame[1].rows = <<>>

\* calculate_temperature_trend raises KeyError: a row without 'Date', or
\* without 'quality_score' in its temperature
TrendRaises(daily) ==
  /\ ~NoneOrEmpty(daily)
  /\ \E i \in DOMAIN daily[1].rows :
        \/ "Date" \notin DOMAIN daily[1].rows[i]
        \/ ScoreMissing(RowMetrics(daily[1].rows[i]))

\* the dict appended to trends for one row
TrendOf(row) ==
  LET temp == calculate_lead_temperature(RowMetrics(row))
  IN ("Date" :> row["Date"]) @@ ("Hot" :> temp.hot) @@ ("Warm" :> temp.warm)
       @@ ("Cold" :> temp.cold) @@ ("Quality Score" :> temp.quality_score)

\* calculate_temperature_trend(daily_df), where it returns
calculate_temperature_trend(daily) ==
  IF NoneOrEmpty(daily) THEN <<>>
  ELSE <<[columns |-> {"Date", "Hot", "Warm", "Cold", "Quality Score"},
          rows |-> [i \in DOMAIN daily[1].rows |-> TrendOf(daily[1].rows[i])]]>>

\* daily_df['Source'].unique(): the sources in the order they first appear
RECURSIVE unique(_)
unique(rows) ==
  IF rows = <<>> THEN <<>>
  ELSE LET before == unique(SubSeq(rows, 1, Len(rows) - 1))
           s == rows[Len(rows)]["Source"]
       IN IF \E i \in DOMAIN before : before[i] = s THEN before
          ELSE Append(before, s)

\* source_data.get(c, pd.Series([0])).sum() over the rows of source s
RECURSIVE SumOf(_, _, _)
SumOf(rows, c, s) ==
  IF rows = <<>> THEN 0
  ELSE (IF rows[1]["Source"] = s /\ c \in DOMAIN rows[1] THEN rows[1][c].n ELSE 0)
         + SumOf(Tail(rows), c, s)

\* the metrics dict summed for source s
SourceMetrics(rows, s) == [c \in StageSet |-> SumOf(rows, c, s)]

\* the function returns None before looking at any source
NoSourceTable(daily) ==
  NoneOrEmpty(daily) \/ "Source" \notin daily[1].columns

\* calculate_temperature_by_source raises KeyError: a source without
\* 'quality_score' in its temperature
BySourceRaises(daily) ==
  /\ ~NoSourceTable(daily)
  /\ \E i \in DOMAIN daily[1].rows :
        ScoreMissing(SourceMetrics(daily[1].rows, daily[1].rows[i]["Source"]))

\* the dict appended to source_temps for source s
SourceTempOf(rows, s) ==
  LET m == SourceMetrics(rows, s)
      temp == calculate_lead_temperature(m)
  IN ("Source" :> s) @@ ("Hot" :> temp.hot) @@ ("Warm" :> temp.warm)
       @@ ("Cold" :> temp.cold) @@ ("Total" :> m["Total Leads"])
       @@ ("Quality Score" :> temp.quality_score)

\* row r put into the rows s sorted by descending Quality Score, after the
\* rows whose score is not lower
RECURSIVE InsertByScore(_, _)
InsertByScore(r, s) ==
  IF s = <<>> THEN <<r>>
  ELSE IF RatLeq(r["Quality Score"], s[1]["Quality Score"])
       THEN <<s[1]>> \o InsertByScore(r, Tail(s))
       ELSE <<r>> \o s

\* sort_values('Quality Score', ascending=False)
RECURSIVE sort_by_score(_)
sort_by_score(rows) ==
  IF rows = <<>> THEN <<>>
  ELSE InsertByScore(rows[Len(rows)], sort_by_score(SubSeq(rows, 1, Len(rows) - 1)))

\* calculate_temperature_by_source(daily_df), where it returns
calculate_temperature_by_source(daily) ==
  IF NoSourceTable(daily) THEN <<>>
  ELSE LET sources == unique(daily[1].rows)
       IN <<[columns |-> {"Source", "Hot", "Warm", "Cold", "Total", "Quality Score"},
             rows |-> sort_by_score([i \in DOMAIN sources |->
                                      SourceTempOf(daily[1].rows, sources[i])])]>>

----------------------------------------------------------------------------
(* Refreshes: runs of main over the spreadsheet, the two Streamlit caches  *)
(* and the session state.  The Daily and WhatsApp sheets are absent.       *)

\* the Metrics sheet that holds the snapshot m
TableOf(m) ==
  [columns |-> {"Stage", "Count"},
   rows |-> [i \in 1..Len(Stages) |->
               [Stage |-> Stages[i], Count |-> IntCell(m[Stages[i]])]]]

\* what the Metrics sheet may hold: the sample sheet, another funnel, no
\* leads at all, no rows, a Count that is no number
Sheets ==
  {TableOf(Fixture),
   TableOf(CHOOSE m \in RoundingSamples : m["Total Leads"] = 50),
   TableOf(ZeroMetrics),
   EmptyTable,
   [columns |-> {"Stage", "Count"},
    rows |-> <<[Stage |-> "Total Leads", Count |-> TextCell]>>]}

\* up: open_by_url succeeds; worksheets: the sheets worksheet() finds
Sources ==
  {[NoWorkbook EXCEPT !.up = u, !.sheet = t] : u \in BOOLEAN, t \in Sheets}

\* the sections main asks an insight for
Sections == {"funnel", "temperature", "whatsapp", "bottleneck", "trends"}

\* the sections whose prompt needs neither the Daily nor the WhatsApp sheet:
\* the ones an API call is made for
Asked == {"funnel", "temperature", "bottleneck"}

\* generate_section_insight returned None
NoInsight == [text |-> FALSE, about |-> EmptyDict]

\* the branch of the section is taken: the section is known and the series
\* it is about is there
Prompted(section, daily, whatsapp) ==
  \/ section \in {"funnel", "bottleneck", "temperature"}
  \/ section = "whatsapp" /\ ~NoneOrEmpty(whatsapp)
  \/ section = "trends" /\ ~NoneOrEmpty(daily)

\* building the prompt of the section raises: a rate that divides by zero,
\* a trends series without 'Total Leads' or with fewer than three rows
PromptRaises(section, m, daily, whatsapp) ==
  \/ section = "bottleneck" /\ BottleneckRaises(calculate_bottleneck(m))
  \/ section = "temperature"
       /\ \/ DictRaises(calculate_lead_temperature(m), TemperatureRatKeys)
          \/ ScoreMissing(m)
  \/ section = "trends" /\ ~NoneOrEmpty(daily)
       /\ \/ "Total Leads" \notin daily[1].columns
          \/ Len(daily[1].rows) < 3

\* the function gets as far as the try block and the branch of its section
EntersBranch(section, m, daily, whatsapp) ==
  /\ env.AI_AVAILABLE
  /\ env.ANTHROPIC_API_KEY
  /\ Get(m, "Total Leads") # 0
  /\ Prompted(section, daily, whatsapp)

\* the function gets as far as client.messages.create
CallsService(section, m, daily, whatsapp) ==
  /\ EntersBranch(section, m, daily, whatsapp)
  /\ ~PromptRaises(section, m, daily, whatsapp)
  /\ ~(section = "bottleneck" /\ calculate_bottleneck(m) = <<>>)

\* the try block without its handler: what is raised leaves the function
EscapesUncaught(raises) == raises

\* "except Exception as e: return None": nothing raised in the try block
\* leaves the function
Escapes(raises) == FALSE

\* generate_section_insight raises; answered: the API call succeeds
InsightRaises(section, m, daily, whatsapp, answered) ==
  /\ EntersBranch(section, m, daily, whatsapp)
  /\ Escapes(\/ PromptRaises(section, m, daily, whatsapp)
             \/ CallsService(section, m, daily, whatsapp) /\ ~answered)

\* generate_section_insight(section, metrics, daily_df, whatsapp_df), where
\* it returns.  The text returned is identified by the snapshot its prompt
\* was built from.
generate_section_insight(section, m, daily, whatsapp, answered) ==
  IF CallsService(section, m, daily, whatsapp) /\ answered
  THEN [text |-> TRUE, about |-> m]
  ELSE NoInsight

\* get_google_sheets_client() under st.cache_resource: the entry in the
\* cache after the call
get_google_sheets_client ==
  IF client_cache # <<>> THEN client_cache
  ELSE <<IF credentials THEN "client" ELSE "None">>

\* the optional sheet read whether the workbook has it or not
OptionalSheetAlways(ws, t, cs) == <<Numeric(ByDate(t), cs)>>

\* the optional sheet named ws: None when worksheet() raises, otherwise its
\* table by date with the columns cs as numbers
OptionalSheet(ws, t, cs) ==
  IF ws \in source.worksheets THEN <<Numeric(ByDate(t), cs)>> ELSE <<>>

\* load_metrics_from_sheets: the tuple it returns, last_update TRUE for
\* datetime.now() and FALSE for None
load_metrics_from_sheets ==
  IF source.up /\ "Metrics" \in source.worksheets
  THEN [df |-> source.sheet,
        daily_df |-> OptionalSheet("Daily", source.daily, daily_numeric_columns),
        whatsapp_df |->
          OptionalSheet("WhatsApp", source.whatsapp, whatsapp_numeric_columns),
        last_update |-> TRUE]
  ELSE [df |-> EmptyTable, daily_df |-> <<>>, whatsapp_df |-> <<>>,
        last_update |-> FALSE]

\* load_metrics_from_sheets under st.cache_data(ttl=30): the entry in the
\* cache after the call
CachedLoad(cache) == IF cache # <<>> THEN cache ELSE <<load_metrics_from_sheets>>

\* the AI Insights button: pressed or not, with the API calls answered
AiToggle(session, pressed, m, daily, whatsapp, answered) ==
  IF ~pressed THEN session
  ELSE LET show == ~session.show_ai_insights
       IN [show_ai_insights |-> show,
           ai_insights_cache |->
             IF show /\ session.ai_insights_cache = EmptyDict
             THEN [sec \in Sections |->
                     generate_section_insight(sec, m, daily, whatsapp,
                                              sec \in answered)]
             ELSE session.ai_insights_cache]

\* the keys of temp_data the Lead Scoring section reads besides the counts
\* and their percentages
ScoringKeys == {"hot_to_close", "warm_to_hot", "cold_to_warm", "quality_score"}

\* the run ends with an uncaught exception after the AI Insights button: a
\* derivation raises, or the Lead Scoring section reads a key temp_data
\* does not have
DerivationsRaise(m, daily) ==
  \/ DictRaises(main_rates(m), RateKeys)
  \/ DictRaises(calculate_lead_temperature(m), TemperatureRatKeys)
  \/ ~(ScoringKeys \subseteq DOMAIN calculate_lead_temperature(m))
  \/ TrendRaises(daily)
  \/ BySourceRaises(daily)
  \/ ProgressRaises(m, TRUE)
  \/ Get(m, "Total Leads") > 0 /\ BottleneckRaises(calculate_bottleneck(m))
  \/ Get(m, "Total Leads") > 0 /\ ProjectionsRaises(calculate_projections(m))

\* a run of main that has not got anywhere: fresh locals, nothing rendered
RunStart(cache) ==
  [client_cache |-> get_google_sheets_client, load_cache |-> cache,
   session_state |-> session_state,
   df |-> EmptyTable, last_update |-> FALSE, metrics |-> EmptyDict,
   called |-> {}, raised |-> {},
   rates |-> EmptyDict, bottlenecks |-> <<>>, projections |-> EmptyDict,
   temp_data |-> EmptyDict, progress |-> <<>>,
   daily_df |-> <<>>, whatsapp_df |-> <<>>,
   temp_trend_df |-> <<>>, source_temp_df |-> <<>>,
   rendered |-> BlankPage]

\* what is on the page when the run stops with the message or page p
Shown(p, buttons) ==
  [page |-> p, buttons |-> buttons, metrics |-> EmptyDict, insights |-> EmptyDict]

\* the guards with the check of GOOGLE_SHEETS_URL left out
GuardBeforeClientNoUrl ==
  IF ~env.GOOGLE_SHEETS_AVAILABLE
  THEN "Google Sheets integration not available"
  ELSE ""

\* main(): the message of the guard that stops the run before the client
\* is asked for, "" when both pass
GuardBeforeClient ==
  IF ~env.GOOGLE_SHEETS_URL THEN "Configuration Error"
  ELSE IF ~env.GOOGLE_SHEETS_AVAILABLE
       THEN "Google Sheets integration not available"
       ELSE ""

\* what main has called once the load is done
Loading == {"get_google_sheets_client", "load_metrics_from_sheets"}

\* main(): one run, after the click (if any) that caused it; answered: the
\* sections whose API call succeeds
main(click, answered) ==
  LET cache == IF click = "refresh_btn" THEN <<>> ELSE load_cache
      start == RunStart(cache)
  IN IF GuardBeforeClient # ""
     THEN [start EXCEPT !.client_cache = client_cache,
                        !.rendered = Shown(GuardBeforeClient, {"refresh_btn"})]
     ELSE IF get_google_sheets_client[1] = "None"
     THEN [start EXCEPT !.called = {"get_google_sheets_client"},
                        !.rendered = Shown("Could not connect", {"refresh_btn"})]
     ELSE
       LET entry == CachedLoad(cache)
           loaded == [start EXCEPT !.load_cache = entry, !.df = entry[1].df,
                                   !.daily_df = entry[1].daily_df,
                                   !.whatsapp_df = entry[1].whatsapp_df,
                                   !.last_update = entry[1].last_update,
                                   !.called = Loading]
       IN IF entry[1].df.rows = <<>>
          THEN [loaded EXCEPT !.rendered = Shown("No data found", {"refresh_btn"})]
          ELSE IF MetricsRaises(entry[1].df)
          THEN [loaded EXCEPT !.called = Loading \cup {"calculate_metrics"},
                              !.raised = {"calculate_metrics"},
                              !.rendered = Shown("exception", {"refresh_btn"})]
          ELSE
            LET m == calculate_metrics(entry[1].df)
                session == AiToggle(session_state, click = "ai_toggle", m,
                                    entry[1].daily_df, entry[1].whatsapp_df,
                                    answered)
                counted == [loaded EXCEPT !.called = Loading \cup {"calculate_metrics"},
                                          !.metrics = m,
                                          !.session_state = session]
            IN IF DerivationsRaise(m, entry[1].daily_df)
               THEN [counted EXCEPT
                       !.rendered = Shown("exception", {"refresh_btn", "ai_toggle"})]
               ELSE [counted EXCEPT
                       !.called = Loading \cup {"calculate_metrics"} \cup Derivations,
                       !.rates = main_rates(m),
                       !.temp_data = calculate_lead_temperature(m),
                       !.temp_trend_df =
                          calculate_temperature_trend(entry[1].daily_df),
                       !.source_temp_df =
                          calculate_temperature_by_source(entry[1].daily_df),
                       !.progress = ProgressPassed(m, TRUE),
                       !.bottlenecks = calculate_bottleneck(m),
                       !.projections = calculate_projections(m),
                       !.rendered =
                          [page |-> "dashboard",
                           buttons |-> {"refresh_btn", "ai_toggle"},
                           metrics |-> m,
                           insights |-> IF session.show_ai_insights
                                        THEN session.ai_insights_cache
                                        ELSE EmptyDict]]

\* what a run of main leaves as it is
outside == <<again, credentials, source, env, tracker>>

\* the state a run of main leaves
Ran(r) ==
  /\ client_cache' = r.client_cache
  /\ load_cache' = r.load_cache
  /\ session_state' = r.session_state
  /\ df' = r.df
  /\ last_update' = r.last_update
  /\ metrics' = r.metrics
  /\ called' = r.called
  /\ raised' = r.raised
  /\ rates' = r.rates
  /\ bottlenecks' = r.bottlenecks
  /\ projections' = r.projections
  /\ temp_data' = r.temp_data
  /\ progress' = r.progress
  /\ daily_df' = r.daily_df
  /\ whatsapp_df' = r.whatsapp_df
  /\ temp_trend_df' = r.temp_trend_df
  /\ source_temp_df' = r.source_temp_df
  /\ rendered' = r.rendered

InitRefresh ==
  /\ metrics = EmptyDict
  /\ df = EmptyTable
  /\ credentials \in BOOLEAN
  /\ source \in Sources
  /\ Installed
  /\ Started

\* the page is opened or reloaded, or a widget other than the two buttons
\* below is used
Rerun ==
  /\ Ran(main("", {}))
  /\ UNCHANGED outside

\* the refresh button: st.cache_data.clear(), st.rerun()
RefreshButton ==
  /\ "refresh_btn" \in rendered.buttons
  /\ Ran(main("refresh_btn", {}))
  /\ UNCHANGED outside

\* the AI Insights button
AiInsightsButton ==
  /\ "ai_toggle" \in rendered.buttons
  /\ \E answered \in SUBSET Asked : Ran(main("ai_toggle", answered))
  /\ UNCHANGED outside

\* the 30 seconds of the cached load are over
Expire ==
  /\ load_cache # <<>>
  /\ load_cache' = <<>>
  /\ UNCHANGED <<metrics, called, raised, derived, again, df, last_update,
                 credentials, source, client_cache, session_state, rendered,
                 progress, env, series, trends, tracker>>

\* the spreadsheet is edited, goes away or comes back
SourceChanges ==
  /\ \E s \in Sources \ {source} : source' = s
  /\ UNCHANGED <<metrics, called, raised, derived, again, df, last_update,
                 credentials, client_cache, load_cache, session_state, rendered,
                 progress, env, series, trends, tracker>>

\* the credentials are put in place or withdrawn
CredentialsChange ==
  /\ credentials' = ~credentials
  /\ UNCHANGED <<metrics, called, raised, derived, again, df, last_update,
                 source, client_cache, load_cache, session_state, rendered,
                 progress, env, series, trends, tracker>>

NextRefresh ==
  \/ Rerun
  \/ RefreshButton
  \/ AiInsightsButton
  \/ Expire
  \/ SourceChanges
  \/ CredentialsChange

SpecRefresh == InitRefresh /\ [][NextRefresh]_vars

\* the spreadsheet can be read now and holds a funnel main can render
SourceAvailable ==
  /\ credentials
  /\ source.up
  /\ source.sheet.rows # <<>>
  /\ ~MetricsRaises(source.sheet)
  /\ ~DerivationsRaise(calculate_metrics(source.sheet),
                       load_metrics_from_sheets.daily_df)

\* C19: an error ends with its refresh: when the last refresh could not load
\* the Metrics sheet and the source is available now, the next refresh loads
\* afresh and renders the data.
C19_ErrorsEndWithTheirRefresh ==
  (rendered.page = "No data found" /\ ~last_update /\ SourceAvailable)
    => /\ main("", {}).rendered.page = "dashboard"
       /\ main("", {}).rendered.metrics = calculate_metrics(source.sheet)

\* C20: what a refresh renders comes from the rows of that refresh alone:
\* the snapshot, every derived item and every insight text shown were derived
\* from the table this refresh loaded.
C20_RenderedFromCurrentSnapshot ==
  rendered.page = "dashboard" =>
    /\ metrics = calculate_metrics(df)
    /\ rendered.metrics = metrics
    /\ rates = main_rates(metrics)
    /\ temp_data = calculate_lead_temperature(metrics)
    /\ bottlenecks = calculate_bottleneck(metrics)
    /\ projections = calculate_projections(metrics)
    /\ \A sec \in DOMAIN rendered.insights :
         rendered.insights[sec].text => rendered.insights[sec].about = metrics

----------------------------------------------------------------------------
(* main on a Metrics table without leads *)

\* C24: a refresh whose Metrics table has rows but Total Leads = 0 (or no
\* Total Leads row) renders to the end without raising, the Lead Scoring
\* section showing zeros for hot_to_close, warm_to_hot, cold_to_warm and
\* quality_score.
C24_NoLeadsRendersZeros ==
  (Returned("calculate_metrics") /\ Total = 0) =>
    /\ rendered.page = "dashboard"
    /\ \A k \in ScoringKeys : k \in DOMAIN temp_data /\ temp_data[k] = Zero

----------------------------------------------------------------------------
(* calculate_projections: the scenarios against the projected sales *)

\* C27: with Total Leads > 0 each scenario of calculate_projections whose
\* stage has a positive rate is at least projected_closed, so the delta main
\* prints after the "+" is never negative.
C27_ScenariosNotBelowProjected ==
  (Returned("calculate_projections") /\ Total > 0) =>
    /\ Get(metrics, "Qualified Leads") > 0 =>
         projections.if_qual_improves_10 >= projections.projected_closed
    /\ Get(metrics, "Viewings Completed") > 0 =>
         projections.if_viewing_improves_10 >= projections.projected_closed


(* main: the fractions given to the progress bars *)

\* C28: with Total Leads > 0 and the funnel chart enabled, every fraction
\* stageCount / Total Leads that main passes to st.progress (Qualified,
\* Viewings Completed, Offers Made, Offers Accepted, Closed Sales) lies in
\* [0, 1], the range the widget accepts.
C28_ProgressWithinUnitInterval ==
  ("stages_progress" \in called /\ Total > 0) =>
    \A i \in DOMAIN progress : ProgressAccepts(progress[i])


----------------------------------------------------------------------------
(* Runs of main over workbooks with and without each of the three sheets,  *)
(* in deployments with and without the URL and the Google Sheets library.  *)

\* the deployments: GOOGLE_SHEETS_URL set or not, gspread importable or not
Envs ==
  {[Configured EXCEPT !.GOOGLE_SHEETS_URL = u, !.GOOGLE_SHEETS_AVAILABLE = g] :
     u \in BOOLEAN, g \in BOOLEAN}

\* a Daily sheet of two days entered latest first
SampleDaily ==
  [columns |-> {"Date", "Total Leads", "Viewings Completed", "Offers Made"},
   rows |-> <<("Date" :> DateCell(2)) @@ ("Total Leads" :> IntCell(2))
                @@ ("Viewings Completed" :> IntCell(1)) @@ ("Offers Made" :> IntCell(1)),
              ("Date" :> DateCell(1)) @@ ("Total Leads" :> IntCell(1))
                @@ ("Viewings Completed" :> IntCell(0)) @@ ("Offers Made" :> IntCell(0))>>]

\* a WhatsApp sheet of one day
SampleWhatsApp ==
  [columns |-> {"Date", "Messages Answered"},
   rows |-> <<("Date" :> DateCell(1)) @@ ("Messages Answered" :> IntCell(2))>>]

\* workbooks: reachable or not, any of the three sheets there or not, the
\* Metrics sheet with the sample funnel or without rows
Workbooks ==
  {[up |-> u, worksheets |-> w, sheet |-> t, daily |-> SampleDaily,
    whatsapp |-> SampleWhatsApp] :
     u \in BOOLEAN, w \in SUBSET {"Metrics", "Daily", "WhatsApp"},
     t \in {TableOf(Fixture), EmptyTable}}

InitLoad ==
  /\ metrics = EmptyDict
  /\ df = EmptyTable
  /\ env \in Envs
  /\ credentials \in BOOLEAN
  /\ source \in Workbooks
  /\ daily_df = <<>>
  /\ whatsapp_df = <<>>
  /\ leads = EmptyTable
  /\ Started

NextLoad ==
  \/ Rerun
  \/ Expire

SpecLoad == InitLoad /\ [][NextLoad]_vars

\* main has run
MainRan == rendered.page # "blank"

\* the functions that compute from the Metrics table
Computing == {"calculate_metrics", "stages_progress"} \cup Derivations

\* the message of the first guard of main that fails, "" when all four pass
FirstFailingGuard ==
  IF ~env.GOOGLE_SHEETS_URL THEN "Configuration Error"
  ELSE IF ~env.GOOGLE_SHEETS_AVAILABLE THEN "Google Sheets integration not available"
  ELSE IF client_cache # <<"client">> THEN "Could not connect"
  ELSE IF df.rows = <<>> THEN "No data found"
  ELSE ""

\* C25: main checks its guards in the order URL configured, Google Sheets
\* library available, client obtained, Metrics table non-empty; the first
\* one that fails ends the refresh with its message; calculate_metrics and
\* the derivations are called only when all four passed, and no load is
\* attempted when the URL, the library or the client is missing.
C25_GuardsInOrder ==
  MainRan =>
    /\ FirstFailingGuard # "" =>
         /\ rendered.page = FirstFailingGuard
         /\ called \cap Computing = {}
    /\ FirstFailingGuard = "" => rendered.page \in {"dashboard", "exception"}
    /\ "get_google_sheets_client" \in called =>
         env.GOOGLE_SHEETS_URL /\ env.GOOGLE_SHEETS_AVAILABLE
    /\ "load_metrics_from_sheets" \in called =>
         /\ env.GOOGLE_SHEETS_URL /\ env.GOOGLE_SHEETS_AVAILABLE
         /\ client_cache = <<"client">>
    /\ ~env.GOOGLE_SHEETS_URL => called = {} /\ load_cache = <<>>

\* a run stopped by the missing URL although the library, the credentials
\* and the Metrics sheet are missing too
C25_Witness ==
  /\ MainRan
  /\ ~env.GOOGLE_SHEETS_URL /\ ~env.GOOGLE_SHEETS_AVAILABLE /\ ~credentials
  /\ "Metrics" \notin source.worksheets
  /\ rendered.page = "Configuration Error"

\* C21: without the Metrics worksheet the loader returns an empty table and
\* main stops with the "No data found" error before computing any metric;
\* without the Daily or the WhatsApp worksheet the Metrics table is loaded
\* as it is, that series is None and the refresh goes on.
C21_MetricsMandatoryOthersOptional ==
  "load_metrics_from_sheets" \in called =>
    /\ "Metrics" \notin source.worksheets =>
         /\ df = EmptyTable /\ ~last_update
         /\ rendered.page = "No data found"
         /\ called \cap Computing = {}
    /\ (source.up /\ "Metrics" \in source.worksheets) =>
         /\ df = source.sheet /\ last_update
         /\ "Daily" \notin source.worksheets => daily_df = <<>>
         /\ "WhatsApp" \notin source.worksheets => whatsapp_df = <<>>
         /\ "Daily" \in source.worksheets => daily_df # <<>>
         /\ "WhatsApp" \in source.worksheets => whatsapp_df # <<>>
         /\ source.sheet.rows # <<>> =>
              /\ rendered.page = "dashboard"
              /\ metrics = calculate_metrics(source.sheet)

\* the dashboard rendered from a workbook that has the Metrics sheet only
C21_Witness ==
  /\ "load_metrics_from_sheets" \in called
  /\ source.up /\ source.worksheets = {"Metrics"}
  /\ rendered.page = "dashboard"
  /\ metrics = Fixture
  /\ daily_df = <<>> /\ whatsapp_df = <<>>


----------------------------------------------------------------------------
(* The loader and the two temperature tables over the Daily sheets.        *)

InitDaily ==
  /\ metrics = EmptyDict
  /\ df = EmptyTable
  /\ credentials = TRUE
  /\ source \in {[NoWorkbook EXCEPT !.worksheets = {"Metrics", "Daily"},
                                    !.sheet = TableOf(Fixture),
                                    !.daily = t] : t \in DailyTables}
  /\ Installed
  /\ Started

\* df, daily_df, whatsapp_df, last_update = load_metrics_from_sheets(...)
LoadMetricsFromSheets ==
  /\ "load_metrics_from_sheets" \notin called
  /\ called' = called \cup {"load_metrics_from_sheets"}
  /\ df' = load_metrics_from_sheets.df
  /\ daily_df' = load_metrics_from_sheets.daily_df
  /\ whatsapp_df' = load_metrics_from_sheets.whatsapp_df
  /\ last_update' = load_metrics_from_sheets.last_update
  /\ UNCHANGED <<metrics, raised, derived, again, credentials, source,
                 client_cache, load_cache, session_state, rendered, progress,
                 env, trends, tracker>>

\* temp_trend_df = calculate_temperature_trend(daily_df)
CalculateTemperatureTrend ==
  /\ "load_metrics_from_sheets" \in called
  /\ "calculate_temperature_trend" \notin called
  /\ called' = called \cup {"calculate_temperature_trend"}
  /\ IF TrendRaises(daily_df)
     THEN raised' = raised \cup {"calculate_temperature_trend"}
          /\ UNCHANGED temp_trend_df
     ELSE temp_trend_df' = calculate_temperature_trend(daily_df)
          /\ UNCHANGED raised
  /\ UNCHANGED <<metrics, derived, again, store, progress, env, series,
                 source_temp_df, tracker>>

\* source_temp_df = calculate_temperature_by_source(daily_df)
CalculateTemperatureBySource ==
  /\ "load_metrics_from_sheets" \in called
  /\ "calculate_temperature_by_source" \notin called
  /\ called' = called \cup {"calculate_temperature_by_source"}
  /\ IF BySourceRaises(daily_df)
     THEN raised' = raised \cup {"calculate_temperature_by_source"}
          /\ UNCHANGED source_temp_df
     ELSE source_temp_df' = calculate_temperature_by_source(daily_df)
          /\ UNCHANGED raised
  /\ UNCHANGED <<metrics, derived, again, store, progress, env, series,
                 temp_trend_df, tracker>>

NextDaily ==
  \/ LoadMetricsFromSheets
  \/ CalculateTemperatureTrend
  \/ CalculateTemperatureBySource

SpecDaily == InitDaily /\ [][NextDaily]_vars

\* the loader has returned a Daily series
DailyLoaded == "load_metrics_from_sheets" \in called /\ daily_df # <<>>

\* C22: after the loader has processed a Daily table, no two rows of the
\* series have the same date.
C22_DatesUnique ==
  (DailyLoaded /\ "Date" \in daily_df[1].columns) =>
    \A i, j \in DOMAIN daily_df[1].rows :
       daily_df[1].rows[i]["Date"] = daily_df[1].rows[j]["Date"] => i = j

\* the rows of the sheet whose Date cell is a date
Dated == {j \in DOMAIN source.daily.rows : source.daily.rows[j]["Date"].type = "date"}

\* the loaded row r is the sheet's row s with its numeric columns as
\* numbers: the number of the sheet, or 0 where the sheet has none
LoadedFrom(r, s) ==
  /\ DOMAIN r = DOMAIN s
  /\ \A c \in DOMAIN s :
       IF c \in daily_numeric_columns
       THEN r[c] = (IF s[c].type \in {"int", "float"} THEN s[c] ELSE IntCell(0))
       ELSE r[c] = s[c]

\* C23: from a Daily table with a Date column the loader drops the rows
\* whose date cannot be parsed, returns the others by ascending date, and
\* puts 0 for every value of a numeric column that is no number.
C23_DroppedSortedZeroFilled ==
  (DailyLoaded /\ "Date" \in source.daily.columns) =>
    LET rows == daily_df[1].rows
    IN /\ Len(rows) = Cardinality(Dated)
       /\ \A i \in DOMAIN rows : rows[i]["Date"].type = "date"
       /\ \A i, j \in DOMAIN rows : i < j => rows[i]["Date"].n <= rows[j]["Date"].n
       /\ \A i \in DOMAIN rows :
            \E j \in Dated : LoadedFrom(rows[i], source.daily.rows[j])
       /\ \A j \in Dated :
            \E i \in DOMAIN rows : LoadedFrom(rows[i], source.daily.rows[j])

\* a sheet of day 2 with a text for its leads, a row without a date and
\* day 1, loaded as day 1 and day 2 with 0 leads
C23_Witness ==
  /\ DailyLoaded
  /\ Len(source.daily.rows) = 3
  /\ source.daily.rows[1]["Date"] = DateCell(2)
  /\ source.daily.rows[1]["Total Leads"] = TextCell
  /\ source.daily.rows[2]["Date"] = TextCell
  /\ source.daily.rows[3]["Date"] = DateCell(1)
  /\ Len(daily_df[1].rows) = 2
  /\ daily_df[1].rows[1]["Date"] = DateCell(1)
  /\ daily_df[1].rows[2]["Total Leads"] = IntCell(0)


\* C26: for a non-empty Daily series, days without leads included,
\* calculate_temperature_trend returns one row per row of the series, in
\* its order, a day without leads as Hot = Warm = Cold = 0 with Quality
\* Score 0; calculate_temperature_by_source returns one row per source,
\* sources without leads included.
C26_OneRowPerDayAndPerSource ==
  /\ ("calculate_temperature_trend" \in called /\ ~NoneOrEmpty(daily_df)
        /\ "Date" \in daily_df[1].columns) =>
       /\ Returned("calculate_temperature_trend")
       /\ temp_trend_df # <<>>
       /\ Len(temp_trend_df[1].rows) = Len(daily_df[1].rows)
       /\ \A i \in DOMAIN daily_df[1].rows :
            /\ temp_trend_df[1].rows[i]["Date"] = daily_df[1].rows[i]["Date"]
            /\ daily_df[1].rows[i]["Total Leads"].n = 0 =>
                 /\ temp_trend_df[1].rows[i]["Hot"] = 0
                 /\ temp_trend_df[1].rows[i]["Warm"] = 0
                 /\ temp_trend_df[1].rows[i]["Cold"] = 0
                 /\ temp_trend_df[1].rows[i]["Quality Score"] = Zero
  /\ ("calculate_temperature_by_source" \in called /\ ~NoSourceTable(daily_df)) =>
       /\ Returned("calculate_temperature_by_source")
       /\ source_temp_df # <<>>
       /\ Len(source_temp_df[1].rows)
            = Cardinality({daily_df[1].rows[i]["Source"] : i \in DOMAIN daily_df[1].rows})


----------------------------------------------------------------------------
(* generate_section_insight over snapshots, series and deployments.        *)

\* the deployments: anthropic importable or not, ANTHROPIC_API_KEY set or not
InsightEnvs ==
  {[Configured EXCEPT !.AI_AVAILABLE = a, !.ANTHROPIC_API_KEY = k] :
     a \in BOOLEAN, k \in BOOLEAN}

\* the snapshots asked about: the sample funnels, no leads, and dicts of
\* some stages only
InsightSnapshots ==
  {Fixture, ZeroMetrics} \cup RoundingSamples
    \cup {[s \in S |-> 1] : S \in SUBSET StageSet}

\* a Daily series of n days
DailyOf(n) ==
  [columns |-> {"Date", "Total Leads"},
   rows |-> [i \in 1..n |-> ("Date" :> DateCell(i)) @@ ("Total Leads" :> IntCell(i))]]

\* the Daily series passed: None, no rows, one to three days, three days
\* without the Total Leads column
InsightDaily ==
  {<<>>, <<Without(DailyOf(3), "Total Leads")>>}
    \cup {<<DailyOf(n)>> : n \in 0..3}

\* the WhatsApp series passed: None, no rows, one day
InsightWhatsApp == {<<>>, <<EmptyTable>>, <<SampleWhatsApp>>}

\* the section names passed: the five of main and one that is none of them
AskedSections == Sections \cup {"pipeline"}

InitInsight ==
  /\ metrics \in InsightSnapshots
  /\ df = EmptyTable
  /\ credentials = TRUE
  /\ source = NoWorkbook
  /\ env \in InsightEnvs
  /\ daily_df \in InsightDaily
  /\ whatsapp_df \in InsightWhatsApp
  /\ leads = EmptyTable
  /\ Started

\* st.session_state.ai_insights_cache[section] =
\*   generate_section_insight(section, metrics, daily_df, whatsapp_df)
GenerateSectionInsight ==
  /\ "generate_section_insight" \notin called
  /\ \E section \in AskedSections, answered \in BOOLEAN :
       LET calls == CallsService(section, metrics, daily_df, whatsapp_df)
           fails == InsightRaises(section, metrics, daily_df, whatsapp_df, answered)
       IN /\ called' = called \cup {"generate_section_insight"}
                         \cup (IF calls THEN {"client.messages.create"} ELSE {})
          /\ raised' = raised
                         \cup (IF fails THEN {"generate_section_insight"} ELSE {})
                         \cup (IF calls /\ ~answered
                               THEN {"client.messages.create"} ELSE {})
          /\ session_state' =
               IF fails THEN session_state
               ELSE [session_state EXCEPT !.ai_insights_cache =
                       section :> generate_section_insight(section, metrics,
                                     daily_df, whatsapp_df, answered)]
  /\ UNCHANGED <<metrics, derived, again, df, last_update, credentials, source,
                 client_cache, load_cache, rendered, progress, env, series,
                 trends, tracker>>

NextInsight == GenerateSectionInsight

SpecInsight == InitInsight /\ [][NextInsight]_vars

\* the section asked about and what was returned for it
AskedSection == CHOOSE sec \in AskedSections : sec \in DOMAIN session_state.ai_insights_cache

Insight == session_state.ai_insights_cache[AskedSection]

\* C29: generate_section_insight never raises; it returns None without the
\* library, without an API key, for Total Leads = 0, for an unknown section,
\* for a section whose series is missing or empty, for an empty bottleneck
\* list and when building the prompt or the external call raises; it
\* returns text only after a successful external call.
C29_InsightNeverRaises ==
  "generate_section_insight" \in called =>
    /\ "generate_section_insight" \notin raised
    /\ session_state.ai_insights_cache # EmptyDict
    /\ (\/ ~env.AI_AVAILABLE
        \/ ~env.ANTHROPIC_API_KEY
        \/ Total = 0
        \/ AskedSection \notin Sections
        \/ AskedSection = "whatsapp" /\ NoneOrEmpty(whatsapp_df)
        \/ AskedSection = "trends" /\ NoneOrEmpty(daily_df)
        \/ AskedSection = "trends" /\ Len(daily_df[1].rows) < 3
        \/ AskedSection = "bottleneck" /\ calculate_bottleneck(metrics) = <<>>
        \/ "client.messages.create" \in raised)
         => Insight = NoInsight
    /\ Insight.text => Returned("client.messages.create")
    /\ ("client.messages.create" \notin called) => Insight = NoInsight

\* None returned for the trends of a series of two days, the library and
\* the key there and the leads counted
C29_Witness ==
  /\ "generate_section_insight" \in called
  /\ "generate_section_insight" \notin raised
  /\ env = Configured
  /\ Total > 0
  /\ "trends" \in DOMAIN session_state.ai_insights_cache
  /\ daily_df # <<>> /\ Len(daily_df[1].rows) = 2
  /\ session_state.ai_insights_cache["trends"] = NoInsight


----------------------------------------------------------------------------
(* get_summary_stats of streamlit_app.py and of streamlit_app_v2.py over   *)
(* the Lead Tracker table.                                                 *)

MaxLeads == 3

\* the values of 'Current Stage' enumerated: before qualification,
\* qualified, won, lost
CurrentStages == {"Lead Collected", "Qualified Lead", "Contract Signed", "Lost"}

\* Lead Tracker tables of up to MaxLeads leads; without rows pd.DataFrame()
\* has no columns
LeadTables ==
  {EmptyTable}
    \cup {[columns |-> {"Current Stage"}, rows |-> r] :
            r \in UNION {[1..n -> [{"Current Stage"} -> CurrentStages]] : n \in 1..MaxLeads}}

\* qualified_stages without 'Contract Signed'
qualified_stages_open ==
  {"Qualified Lead", "Discovery/Presentation", "Opportunity", "Negotiation"}

\* qualified_stages
qualified_stages ==
  {"Qualified Lead", "Discovery/Presentation", "Opportunity", "Negotiation",
   "Contract Signed"}

\* len(df[df['Current Stage'].isin(S)])
CountIn(t, S) ==
  Cardinality({i \in DOMAIN t.rows : t.rows[i]["Current Stage"] \in S})

\* df['Current Stage'] raises KeyError
SummaryRaises(t) == "Current Stage" \notin t.columns

\* the dict of the two functions for a table with the column
SummaryOf(t) ==
  LET total_leads == Len(t.rows)
      won == CountIn(t, {"Contract Signed"})
      lost == CountIn(t, {"Lost"})
  IN [total_leads |-> total_leads,
      qualified |-> CountIn(t, qualified_stages),
      won |-> won,
      lost |-> lost,
      win_rate |-> GuardedPct(won, total_leads),
      active |-> total_leads - won - lost]

\* streamlit_app.get_summary_stats(df), where it returns
get_summary_stats(t) == SummaryOf(t)

\* the dict streamlit_app_v2.get_summary_stats returns for len(df) == 0
NoLeadsSummary ==
  [total_leads |-> 0, qualified |-> 0, won |-> 0, lost |-> 0, win_rate |-> Zero,
   active |-> 0]

\* streamlit_app_v2.get_summary_stats(df), where it returns
get_summary_stats_v2(t) == IF Len(t.rows) = 0 THEN NoLeadsSummary ELSE SummaryOf(t)

InitStats ==
  /\ metrics = EmptyDict
  /\ df = EmptyTable
  /\ credentials = TRUE
  /\ source = NoWorkbook
  /\ env = Configured
  /\ daily_df = <<>>
  /\ whatsapp_df = <<>>
  /\ leads \in LeadTables
  /\ Started

\* stats = get_summary_stats(df) in streamlit_app.py
GetSummaryStats ==
  /\ "get_summary_stats" \notin called
  /\ called' = called \cup {"get_summary_stats"}
  /\ IF SummaryRaises(leads)
     THEN raised' = raised \cup {"get_summary_stats"} /\ UNCHANGED stats
     ELSE stats' = get_summary_stats(leads) /\ UNCHANGED raised
  /\ UNCHANGED <<metrics, derived, again, store, progress, env, series, trends,
                 leads, stats_v2>>

\* stats = get_summary_stats(df) in streamlit_app_v2.py
GetSummaryStatsV2 ==
  /\ "get_summary_stats_v2" \notin called
  /\ called' = called \cup {"get_summary_stats_v2"}
  /\ IF Len(leads.rows) # 0 /\ SummaryRaises(leads)
     THEN raised' = raised \cup {"get_summary_stats_v2"} /\ UNCHANGED stats_v2
     ELSE stats_v2' = get_summary_stats_v2(leads) /\ UNCHANGED raised
  /\ UNCHANGED <<metrics, derived, again, store, progress, env, series, trends,
                 leads, stats>>

NextStats ==
  \/ GetSummaryStats
  \/ GetSummaryStatsV2

SpecStats == InitStats /\ [][NextStats]_vars

\* the relations between the values of one summary
SummaryConsistent(s) ==
  /\ s.won + s.lost + s.active = s.total_leads
  /\ 0 <= s.won /\ s.won <= s.qualified /\ s.qualified <= s.total_leads
  /\ s.active >= 0
  /\ s.win_rate = Times(TrueDiv(s.won, s.total_leads), 100)

\* C30: for a lead table with rows, get_summary_stats returns won + lost +
\* active = total_leads, 0 <= won <= qualified <= total_leads, active >= 0
\* and win_rate = won / total_leads * 100, in streamlit_app.py and in
\* streamlit_app_v2.py, and the two return the same record.
C30_SummaryConsistentAndSame ==
  leads.rows # <<>> =>
    /\ "get_summary_stats" \in called =>
         Returned("get_summary_stats") /\ SummaryConsistent(stats)
    /\ "get_summary_stats_v2" \in called =>
         Returned("get_summary_stats_v2") /\ SummaryConsistent(stats_v2)
    /\ {"get_summary_stats", "get_summary_stats_v2"} \subseteq called =>
         stats = stats_v2

\* three leads, one won, one lost, one still qualified, summarised by both
C30_Witness ==
  /\ {"get_summary_stats", "get_summary_stats_v2"} \subseteq called
  /\ raised = {}
  /\ stats.total_leads = 3 /\ stats.won = 1 /\ stats.lost = 1
  /\ stats.qualified = 2 /\ stats.active = 1
  /\ stats_v2 = stats

=============================================================================
